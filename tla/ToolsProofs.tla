----------------------------- MODULE ToolsProofs -----------------------------
(***************************************************************************)
(* Proofs, for any accounts, positions, prices, trades, windows and        *)
(* moments, of the properties of the tools.                                *)
(***************************************************************************)
EXTENDS Tools, SumFacts, SequenceTheorems

USE WindowAssumption

-----------------------------------------------------------------------------
(* Days *)

\* A moment is on the day that has begun by then and not ended.
LEMMA DayContains ==
  ASSUME NEW t \in Int
  PROVE  /\ DayOf(t) \in Int
         /\ DayOf(t) * Day <= t
         /\ t < DayOf(t) * Day + Day
BY DEF DayOf

\* Days are as far apart as their beginnings.
LEMMA DaysApart ==
  ASSUME NEW d \in Int, NEW e \in Int
  PROVE  /\ d * Day \in Int
         /\ d <= e => d * Day <= e * Day
         /\ d < e => d * Day + Day <= e * Day
<1>1. ASSUME NEW n \in Nat PROVE n * Day \in Nat
  OBVIOUS
<1>2. (e - d) * Day = e * Day - d * Day
  OBVIOUS
<1>3. (e - d - 1) * Day = e * Day - d * Day - Day
  OBVIOUS
<1>4. d <= e => (e - d) * Day \in Nat
  BY <1>1
<1>5. d < e => (e - d - 1) * Day \in Nat
  BY <1>1
<1> QED
  BY <1>2, <1>3, <1>4, <1>5

\* The moments of a day.
LEMMA DayIs ==
  ASSUME NEW t \in Int, NEW d \in Int
  PROVE  DayOf(t) = d <=> d * Day <= t /\ t < d * Day + Day
<1>1. /\ DayOf(t) \in Int /\ DayOf(t) * Day <= t /\ t < DayOf(t) * Day + Day
  BY DayContains
<1>2. DayOf(t) < d => DayOf(t) * Day + Day <= d * Day
  BY <1>1, DaysApart
<1>3. d < DayOf(t) => d * Day + Day <= DayOf(t) * Day
  BY <1>1, DaysApart
<1>4. d * Day \in Int /\ DayOf(t) * Day \in Int
  BY <1>1
<1> QED
  BY <1>1, <1>2, <1>3, <1>4

\* Days back from a moment.
LEMMA DayBack ==
  ASSUME NEW t \in Int, NEW n \in Int
  PROVE  DayOf(t - n * Day) = DayOf(t) - n
<1>1. DayOf(t) \in Int /\ DayOf(t) * Day <= t /\ t < DayOf(t) * Day + Day
  BY DayContains
<1>2. (DayOf(t) - n) * Day = DayOf(t) * Day - n * Day /\ n * Day \in Int /\ DayOf(t) * Day \in Int
  BY <1>1
<1>3. (DayOf(t) - n) * Day <= t - n * Day /\ t - n * Day < (DayOf(t) - n) * Day + Day
  BY <1>1, <1>2
<1> QED
  BY <1>1, <1>2, <1>3, DayIs

\* From the first moment of a day to the last one of another are the moments of
\* the days from the one to the other.
Covers(d, e, last) ==
  /\ StartOfDay(d) <= EndOfDay(e)
  /\ StartOfDay(d)..EndOfDay(e) = {t \in 0..StartOfDay(last + 1) : DayOf(t) \in d..e}

\* They are one interval of moments.
LEMMA DaysCover ==
  \A d \in Nat, e, last \in Int : d <= e /\ e <= last => Covers(d, e, last)
<1> SUFFICES ASSUME NEW d \in Nat, NEW e \in Int, NEW last \in Int, d <= e, e <= last
             PROVE  Covers(d, e, last)
  OBVIOUS
<1>1. /\ StartOfDay(d) = d * Day /\ EndOfDay(e) = e * Day + Day - 1
      /\ StartOfDay(last + 1) = last * Day + Day
  BY DEF StartOfDay, EndOfDay
<1>2. d * Day \in Nat /\ d * Day <= e * Day /\ e * Day <= last * Day /\ e * Day \in Int /\ last * Day \in Int
  BY DaysApart
<1>3. ASSUME NEW t \in Int, d * Day <= t, t <= e * Day + Day - 1
      PROVE  DayOf(t) \in d..e
  <2>1. DayOf(t) \in Int /\ DayOf(t) * Day <= t /\ t < DayOf(t) * Day + Day /\ DayOf(t) * Day \in Int
    BY DayContains
  <2>2. ~(DayOf(t) < d)
    <3>1. DayOf(t) < d => DayOf(t) * Day + Day <= d * Day
      BY <2>1, DaysApart
    <3> QED
      BY <1>2, <1>3, <2>1, <3>1
  <2>3. ~(e < DayOf(t))
    <3>1. e < DayOf(t) => e * Day + Day <= DayOf(t) * Day
      BY <2>1, DaysApart
    <3> QED
      BY <1>2, <1>3, <2>1, <3>1
  <2> QED
    BY <2>1, <2>2, <2>3
<1>4. ASSUME NEW t \in Int, DayOf(t) \in d..e
      PROVE  d * Day <= t /\ t <= e * Day + Day - 1
  <2>1. DayOf(t) \in Int /\ DayOf(t) * Day <= t /\ t < DayOf(t) * Day + Day /\ DayOf(t) * Day \in Int
    BY DayContains
  <2>2. d * Day <= DayOf(t) * Day /\ DayOf(t) * Day <= e * Day
    BY <1>4, <2>1, DaysApart
  <2> QED
    BY <1>2, <2>1, <2>2
<1>5. StartOfDay(d) <= EndOfDay(e)
  BY <1>1, <1>2
<1>6. \A t : t \in StartOfDay(d)..EndOfDay(e) <=>
             t \in 0..StartOfDay(last + 1) /\ DayOf(t) \in d..e
  BY <1>1, <1>2, <1>3, <1>4
<1> QED
  BY <1>5, <1>6 DEF Covers

-----------------------------------------------------------------------------
(* The tools that make one request *)

\* The bounds were accepted when they were checked.
Checked ==
  /\ checkedAt \in Int
  /\ called = "get_orders_history" => bounds.first >= checkedAt - Cap * Day
  /\ called = "get_transactions" =>
       /\ bounds.first \in Nat /\ bounds.first >= DayOf(checkedAt - Cap * Day)
       /\ bounds.second >= bounds.first /\ bounds.second <= DayOf(MaxMoment)

DirectInv ==
  /\ DirectTypeOK
  /\ toolStep # "done" => toolAnswer = "none"
  /\ toolStep \in {"arguments", "client", "request"} => sent = NoWindow
  /\ toolStep \in {"client", "request", "response"} => Checked
  /\ RaisesOnlyOnFaults
  /\ WindowsAsAccepted

\* A call that has just come.
LEMMA DirectInitHolds == DirectInit => DirectInv
BY DEF DirectInit, DirectInv, DirectTypeOK, NoWindow, Window, Bodies, Faults,
       RaisesOnlyOnFaults, WindowsAsAccepted

\* The part of the invariant that looks at the end of a call.
LEMMA WindowsStand ==
  ASSUME DirectInv, UNCHANGED <<called, sent>>, sent # NoWindow => UNCHANGED <<bounds, checkedAt>>
  PROVE  WindowsAsAccepted'
BY DEF DirectInv, WindowsAsAccepted

\* What a request asks for.
LEMMA RequestAllowed ==
  ASSUME DirectTypeOK, Checked, moment \in Int, sent' = RequestWindow,
         UNCHANGED <<called, bounds, checkedAt>>
  PROVE  sent' \in Window /\ WindowsAsAccepted'
<1>1. bounds.first \in Int /\ bounds.second \in Int /\ checkedAt \in Int /\ Cap * Day \in Int
  BY DEF DirectTypeOK
<1>2. CASE called = "get_orders_history"
  <2>1. sent' = [from |-> bounds.first, to |-> bounds.second, at |-> moment]
    BY <1>2 DEF RequestWindow
  <2>2. (moment - Cap * Day) - bounds.first <= moment - checkedAt
    BY <1>1, <1>2 DEF Checked
  <2> QED
    BY <1>1, <1>2, <2>1, <2>2 DEF WindowsAsAccepted, Window
<1>3. CASE called = "get_transactions"
  <2>1. sent' = [from |-> StartOfDay(bounds.first), to |-> EndOfDay(bounds.second), at |-> moment]
    BY <1>3 DEF RequestWindow
  <2>2. StartOfDay(bounds.first) \in Int /\ EndOfDay(bounds.second) \in Int
    BY <1>1 DEF StartOfDay, EndOfDay
  <2>3. (moment - Cap * Day) - StartOfDay(bounds.first) < (moment - checkedAt) + Day
    <3> DEFINE d == DayOf(checkedAt - Cap * Day)
    <3>1. /\ d \in Int /\ d * Day \in Int
          /\ checkedAt - Cap * Day < d * Day + Day
      BY <1>1, DayContains
    <3>2. d * Day <= bounds.first * Day
      BY <1>1, <1>3, <3>1, DaysApart DEF Checked
    <3> QED
      BY <1>1, <2>2, <3>1, <3>2 DEF StartOfDay
  <2>4. Covers(bounds.first, bounds.second, DayOf(MaxMoment))
    <3>1. DayOf(MaxMoment) \in Int
      BY DayContains
    <3>2. /\ bounds.first \in Nat /\ bounds.first <= bounds.second
          /\ bounds.second <= DayOf(MaxMoment)
      BY <1>1, <1>3 DEF Checked
    <3> QED
      BY <1>1, <3>1, <3>2, DaysCover
  <2> QED
    BY <1>3, <2>1, <2>2, <2>3, <2>4 DEF WindowsAsAccepted, Window, Covers
<1>4. CASE called \notin Windowed
  <2>1. sent' = NoWindow
    BY <1>4 DEF RequestWindow, Windowed
  <2> QED
    BY <2>1 DEF WindowsAsAccepted, NoWindow, Window
<1> QED
  BY <1>2, <1>3, <1>4 DEF Windowed

\* No tool calls a method that the wrapper refuses.
LEMMA MethodListed == \A tool \in OneRequestTools : Method(tool) \in ReadOnlyMethods
BY DEF OneRequestTools, ListTools, ObjectTools, VerbatimTools, Method, ReadOnlyMethods

\* A response is handed on, empty or an error; only an object tool raises, and only on
\* what it cannot read.
LEMMA ShapedAnswers ==
  ASSUME called \in OneRequestTools, NEW b \in Bodies
  PROVE  /\ Shaped(b) \in {"raised", "error", "empty", "data"}
         /\ Shaped(b) = "raised" =>
              \/ called \in ObjectTools /\ b \in {"rows", "text", "no_account"}
              \/ called = "get_account_summary" /\ b = "odd_part"
<1>1. CASE b = "failure"
  BY <1>1 DEF Shaped
<1>2. CASE b # "failure" /\ called \in ListTools
  <2>1. called \notin ObjectTools /\ called \notin VerbatimTools
    BY <1>2 DEF ListTools, ObjectTools, VerbatimTools
  <2>2. Shaped(b) = IF b = "rows" THEN "data" ELSE "empty"
    BY <1>2, <2>1 DEF Shaped
  <2> QED
    BY <2>2
<1>3. CASE b # "failure" /\ called \in ObjectTools
  <2>1. called \notin ListTools /\ called \notin VerbatimTools
    BY <1>3 DEF ListTools, ObjectTools, VerbatimTools
  <2>2. Shaped(b) = IF b \in Unreadable THEN "raised" ELSE IF b = "nothing" THEN "empty" ELSE "data"
    BY <1>3, <2>1 DEF Shaped
  <2> QED
    BY <1>3, <2>2 DEF Unreadable
<1>4. CASE b # "failure" /\ called \in VerbatimTools
  <2>1. called \notin ListTools /\ called \notin ObjectTools
    BY <1>4 DEF ListTools, ObjectTools, VerbatimTools
  <2>2. Shaped(b) = "data"
    BY <1>4, <2>1 DEF Shaped
  <2> QED
    BY <2>2
<1> QED
  BY <1>1, <1>2, <1>3, <1>4 DEF OneRequestTools

\* The bounds a caller gives, dates no later than the last.
LEMMA GivenBoundsTypes ==
  ASSUME DirectTypeOK, NEW b \in GivenBounds
  PROVE  /\ b \in [first : Int, second : Int]
         /\ called = "get_transactions" => b.first \in Nat /\ b.second <= DayOf(MaxMoment)
<1>1. DayOf(MaxMoment) \in Int
  BY DayContains
<1> QED
  BY <1>1 DEF GivenBounds, DirectTypeOK

\* The tools of one request keep their part.
LEMMA DirectNextKeeps ==
  ASSUME DirectInv, DirectNext, called \in OneRequestTools, moment \in Int, moment' = moment
  PROVE  DirectInv'
<1>1. CASE Validate
  <2>1. PICK b \in GivenBounds : Accepted(b) /\ bounds' = b
    BY <1>1 DEF Validate
  <2>2. /\ toolStep = "arguments" /\ toolStep' = "client" /\ checkedAt' = moment
        /\ UNCHANGED <<called, sent, body, toolAnswer>>
    BY <1>1 DEF Validate
  <2>3. DirectTypeOK'
    BY <2>1, <2>2, GivenBoundsTypes DEF DirectInv, DirectTypeOK
  <2>4. Checked'
    BY <2>1, <2>2, GivenBoundsTypes
    DEF DirectInv, Checked, Accepted, OrdersAccepted, TransactionsAccepted
  <2>5. sent = NoWindow
    BY <2>2 DEF DirectInv
  <2>6. WindowsAsAccepted'
    BY <2>2, <2>5 DEF WindowsAsAccepted
  <2> QED
    BY <2>2, <2>3, <2>4, <2>5, <2>6 DEF DirectInv, RaisesOnlyOnFaults
<1>2. CASE Reject
  <2>1. PICK b \in GivenBounds : bounds' = b
    BY <1>2 DEF Reject
  <2>2. /\ toolStep = "arguments" /\ toolStep' = "done" /\ toolAnswer' = "rejected"
        /\ UNCHANGED <<called, checkedAt, sent, body>>
    BY <1>2 DEF Reject, ToolEnd
  <2>3. DirectTypeOK'
    BY <2>1, <2>2, GivenBoundsTypes DEF DirectInv, DirectTypeOK
  <2>4. WindowsAsAccepted'
    BY <2>2 DEF DirectInv, WindowsAsAccepted
  <2> QED
    BY <2>2, <2>3, <2>4 DEF DirectInv, RaisesOnlyOnFaults
<1>3. CASE GetClient
  <2>1. /\ toolStep = "client" /\ toolStep' = "request"
        /\ UNCHANGED <<called, bounds, checkedAt, sent, body, toolAnswer>>
    BY <1>3 DEF GetClient
  <2>2. WindowsAsAccepted'
    BY <2>1, WindowsStand
  <2> QED
    BY <2>1, <2>2 DEF DirectInv, DirectTypeOK, Checked, RaisesOnlyOnFaults
<1>4. CASE NoClient \/ Unreachable
  <2>1. /\ toolStep' = "done" /\ toolAnswer' = "raised" /\ body' \in Faults
        /\ UNCHANGED <<called, bounds, checkedAt, sent>>
    BY <1>4 DEF NoClient, Unreachable, ToolEnd, Faults
  <2>2. WindowsAsAccepted'
    BY <2>1, WindowsStand
  <2> QED
    BY <2>1, <2>2 DEF DirectInv, DirectTypeOK, RaisesOnlyOnFaults
<1>5. CASE Request
  <2>1. /\ toolStep = "request" /\ toolStep' = "response" /\ sent' = RequestWindow
        /\ UNCHANGED <<called, bounds, checkedAt, body, toolAnswer>>
    BY <1>5, MethodListed DEF Request
  <2>2. Checked /\ DirectTypeOK
    BY <2>1 DEF DirectInv
  <2>3. sent' \in Window /\ WindowsAsAccepted'
    BY <2>1, <2>2, RequestAllowed
  <2> QED
    BY <2>1, <2>2, <2>3 DEF DirectInv, DirectTypeOK, Checked, RaisesOnlyOnFaults
<1>6. CASE Normalise
  <2>1. PICK b \in Bodies : body' = b /\ toolAnswer' = Shaped(b)
    BY <1>6 DEF Normalise, ToolEnd
  <2>2. toolStep' = "done" /\ UNCHANGED <<called, bounds, checkedAt, sent>>
    BY <1>6 DEF Normalise, ToolEnd
  <2>3. WindowsAsAccepted'
    BY <2>2, WindowsStand
  <2>4. DirectTypeOK' /\ RaisesOnlyOnFaults'
    BY <2>1, <2>2, ShapedAnswers DEF DirectInv, DirectTypeOK, RaisesOnlyOnFaults
  <2> QED
    BY <2>2, <2>3, <2>4 DEF DirectInv
<1> QED
  BY <1>1, <1>2, <1>3, <1>4, <1>5, <1>6 DEF DirectNext

-----------------------------------------------------------------------------
(* The P&L analysis *)

\* An answer is a function on an interval, so its sums are finite.
LEMMA Indices ==
  ASSUME NEW S, NEW n \in Nat, NEW seq \in UpTo(S, n)
  PROVE  /\ seq \in Seq(S)
         /\ DOMAIN seq = 1..Len(seq)
         /\ IsFiniteSet(DOMAIN seq)
         /\ \A i \in DOMAIN seq : seq[i] \in S
<1>1. PICK k \in 0..n : seq \in [1..k -> S]
  BY DEF UpTo
<1>2. k \in Nat /\ seq \in Seq(S) /\ DOMAIN seq = 1..k /\ Len(seq) = k
  BY <1>1
<1> QED
  BY <1>1, <1>2, FS_Interval

\* The totals over the positions are integers.
LEMMA TotalsAreInt ==
  ASSUME NEW ps \in UpTo(PricedPosition, MaxPriced)
  PROVE  TotalOver(MarketValue, ps) \in Int /\ TotalOver(CostBasis, ps) \in Int
<1> DEFINE D == DOMAIN ps
           mv == [i \in D |-> MarketValue(ps[i])]
           cb == [i \in D |-> CostBasis(ps[i])]
<1>1. IsFiniteSet(D) /\ \A i \in D : ps[i] \in PricedPosition
  BY Indices, PnlAssumption
<1>2. ASSUME NEW p \in PricedPosition PROVE MarketValue(p) \in Int /\ CostBasis(p) \in Int
  <2>1. p.quantity \in Int /\ p.average \in Nat /\ p.market \in Int
    BY PnlAssumption DEF PricedPosition
  <2> QED
    BY <2>1 DEF MarketValue, CostBasis, AbsQuantity
<1>3. IntOn(mv, D) /\ IntOn(cb, D)
  BY <1>1, <1>2 DEF IntOn
<1>4. TotalOver(MarketValue, ps) = SumFunctionOnSet(mv, D) /\ TotalOver(CostBasis, ps) = SumFunctionOnSet(cb, D)
  BY DEF TotalOver, SumFunction
<1> HIDE DEF D, mv, cb
<1> QED
  BY <1>1, <1>3, <1>4, SumRecursion

\* What trades have realized is no loss.
LEMMA RealizedNatural ==
  ASSUME NEW ts \in UpTo(NetAmounts, MaxTrades)
  PROVE  TotalOver(LAMBDA net : IF net > 0 THEN net ELSE 0, ts) \in Nat
<1> DEFINE f == [i \in DOMAIN ts |-> IF ts[i] > 0 THEN ts[i] ELSE 0]
<1>1. IsFiniteSet(DOMAIN ts) /\ \A i \in DOMAIN ts : ts[i] \in Int
  BY Indices, PnlAssumption
<1>2. \A i \in DOMAIN ts : f[i] \in Nat
  BY <1>1
<1>3. TotalOver(LAMBDA net : IF net > 0 THEN net ELSE 0, ts) = SumFunctionOnSet(f, DOMAIN ts)
  BY DEF TotalOver, SumFunction
<1> HIDE DEF f
<1> QED
  BY <1>1, <1>2, <1>3, SumOfNaturals

\* The moment of the request decides the window.
LEMMA PnlWindowIs ==
  ASSUME moment \in Int, lookback \in 1..Cap, AskTransactions, UNCHANGED lookback
  PROVE  pnlWindow' \in Window /\ PnlWindowAllowed'
<1> DEFINE d == DayOf(moment)
           w == [from |-> StartOfDay(d - lookback), to |-> EndOfDay(d), at |-> moment]
<1>1. d \in Int /\ d * Day \in Int /\ (d - lookback) * Day \in Int /\ lookback \in Int
  BY DayContains
<1>2. StartOfDay(d - lookback) = (d - lookback) * Day /\ EndOfDay(d) = d * Day + Day - 1
  BY DEF StartOfDay, EndOfDay
<1>3. (d - lookback) * Day = d * Day - lookback * Day /\ lookback * Day \in Int
  BY <1>1
<1>4. (lookback + 1) * Day = lookback * Day + Day
  BY <1>1
<1>5. pnlWindow' = w
  BY DEF AskTransactions
<1>6. DayOf(moment - Cap * Day) = d - Cap
  BY DayBack
<1> HIDE DEF d
<1>7. DayOf((d - lookback) * Day) = d - lookback
  BY <1>1, DayIs
<1>8. DayOf(d * Day + Day - 1) = d
  BY <1>1, DayIs
<1>9. d - lookback >= d - Cap
  BY <1>1
<1>10. w.from = (d - lookback) * Day /\ w.to = d * Day + Day - 1 /\ w.at = moment /\ w \in Window
  BY <1>1, <1>2 DEF Window
<1>11. DayOf(moment) = d
  BY DEF d
<1> HIDE DEF w
<1> QED
  BY <1>1, <1>3, <1>4, <1>5, <1>6, <1>7, <1>8, <1>9, <1>10, <1>11 DEF PnlWindowAllowed

PnlTypes ==
  /\ lookback \in Nat
  /\ unrealized \in Int
  /\ realized \in [available: BOOLEAN, amount: Nat]
  /\ pnlWindow \in Window

\* The look-back has been accepted when Schwab is asked, and the window is made
\* in the last step.
PnlInv ==
  /\ PnlTypes
  /\ pnlStep \in {"account", "transactions"} => lookback \in 1..Cap
  /\ pnlStep # "done" => pnlWindow = NoWindow
  /\ PnlWindowAllowed

\* Before anything is asked.
LEMMA PnlInitHolds == PnlInit => PnlInv
<1> SUFFICES ASSUME PnlInit PROVE PnlInv
  OBVIOUS
<1>1. PnlTypes
  BY DEF PnlInit, PnlTypes, NoWindow, Window
<1> QED
  BY <1>1 DEF PnlInit, PnlInv, PnlWindowAllowed

\* The P&L analysis keeps its part.
LEMMA PnlNextKeeps ==
  ASSUME PnlInv, PnlNext, moment \in Int
  PROVE  PnlInv'
<1>1. CASE CheckLookback
  <2>1. /\ lookback' \in Nat /\ (pnlStep' = "account" => lookback' \in 1..Cap)
        /\ pnlStep = "arguments" /\ pnlStep' \in {"account", "done"}
        /\ UNCHANGED <<unrealized, realized, pnlWindow>>
    BY <1>1 DEF CheckLookback, LookbackAccepted, PnlEnd, PnlInv, PnlTypes
  <2> QED
    BY <2>1 DEF PnlInv, PnlTypes, PnlWindowAllowed
<1>2. CASE FetchPositions
  <2>1. PICK ps \in UpTo(PricedPosition, MaxPriced) :
          unrealized' = TotalOver(MarketValue, ps) - TotalOver(CostBasis, ps)
    BY <1>2 DEF FetchPositions
  <2>2. /\ pnlStep = "account" /\ pnlStep' = "transactions"
        /\ UNCHANGED <<lookback, realized, pnlWindow>>
    BY <1>2 DEF FetchPositions
  <2>3. unrealized' \in Int
    BY <2>1, TotalsAreInt
  <2> QED
    BY <2>2, <2>3 DEF PnlInv, PnlTypes, PnlWindowAllowed
<1>3. CASE FetchPositionsFails
  <2>1. /\ pnlStep' = "done"
        /\ UNCHANGED <<lookback, unrealized, realized, pnlWindow>>
    BY <1>3 DEF FetchPositionsFails, PnlEnd
  <2> QED
    BY <2>1 DEF PnlInv, PnlTypes, PnlWindowAllowed
<1>4. CASE FetchTransactions
  <2>1. PICK ts \in UpTo(NetAmounts, MaxTrades) :
          realized' = [available |-> TRUE,
            amount |-> TotalOver(LAMBDA net : IF net > 0 THEN net ELSE 0, ts)]
    BY <1>4 DEF FetchTransactions
  <2>2. /\ pnlStep = "transactions" /\ pnlStep' = "done" /\ AskTransactions
        /\ UNCHANGED <<lookback, unrealized>>
    BY <1>4 DEF FetchTransactions, PnlEnd
  <2>3. realized' \in [available: BOOLEAN, amount: Nat]
    BY <2>1, RealizedNatural
  <2>4. pnlWindow' \in Window /\ PnlWindowAllowed'
    BY <2>2, PnlWindowIs DEF PnlInv
  <2> QED
    BY <2>2, <2>3, <2>4 DEF PnlInv, PnlTypes
<1>5. CASE TransactionsError \/ TransactionsRaise
  <2>1. /\ pnlStep = "transactions" /\ pnlStep' = "done"
        /\ AskTransactions \/ UNCHANGED pnlWindow
        /\ UNCHANGED <<lookback, unrealized, realized>>
    BY <1>5 DEF TransactionsError, TransactionsRaise, PnlEnd
  <2>2. pnlWindow' \in Window /\ PnlWindowAllowed'
    <3>1. CASE AskTransactions
      BY <2>1, <3>1, PnlWindowIs DEF PnlInv
    <3>2. CASE UNCHANGED pnlWindow
      BY <2>1, <3>2 DEF PnlInv, PnlTypes, PnlWindowAllowed
    <3> QED
      BY <2>1, <3>1, <3>2
  <2> QED
    BY <2>1, <2>2 DEF PnlInv, PnlTypes
<1> QED
  BY <1>1, <1>2, <1>3, <1>4, <1>5 DEF PnlNext

HIDE WindowAssumption

-----------------------------------------------------------------------------
(* The cross-account summary *)

\* The sum over a sequence that gets one more element.
LEMMA SumAppended ==
  ASSUME NEW n \in Nat, NEW f, IntOn(f, 1..n + 1), NEW g, \A i \in 1..n : g[i] = f[i]
  PROVE  SumFunctionOnSet(f, 1..n + 1) = SumFunctionOnSet(g, 1..n) + f[n + 1]
<1>1. IsFiniteSet(1..n + 1) /\ IsFiniteSet(1..n) /\ n + 1 \in 1..n + 1
  BY FS_Interval
<1>2. (1..n + 1) \ {n + 1} = 1..n
  OBVIOUS
<1>3. SumFunctionOnSet(f, 1..n + 1) = f[n + 1] + SumFunctionOnSet(f, 1..n)
  BY <1>1, <1>2, SumRecursion
<1>4. IntOn(f, 1..n)
  BY DEF IntOn
<1>5. SumFunctionOnSet(g, 1..n) = SumFunctionOnSet(f, 1..n) /\ SumFunctionOnSet(f, 1..n) \in Int
  BY <1>1, <1>4, SumSame, SumRecursion
<1>6. f[n + 1] \in Int
  BY <1>1 DEF IntOn
<1> QED
  BY <1>3, <1>5, <1>6

\* The positions of an account, their values and their number.
LEMMA PortfolioHas ==
  ASSUME NEW held \in Portfolio
  PROVE  /\ held \in Seq(HeldPosition) /\ Len(held) \in 0..MaxHeld
         /\ DOMAIN held = 1..Len(held) /\ IsFiniteSet(DOMAIN held)
         /\ \A i \in DOMAIN held : held[i].symbol \in Symbols /\ held[i].value \in Int
<1>1. PICK k \in 0..MaxHeld : held \in [1..k -> HeldPosition]
  BY DEF Portfolio
<1>2. k \in Nat /\ held \in Seq(HeldPosition) /\ DOMAIN held = 1..k /\ Len(held) = k
  BY <1>1, CrossAssumption
<1>3. ASSUME NEW p \in HeldPosition PROVE p.symbol \in Symbols /\ p.value \in Int
  <2>1. p.symbol \in Symbols /\ p.value \in MarketValues
    BY DEF HeldPosition
  <2> QED
    BY <2>1, CrossAssumption
<1>4. \A i \in DOMAIN held : held[i] \in HeldPosition
  BY <1>1
<1> QED
  BY <1>1, <1>2, <1>3, <1>4, FS_Interval

\* The values of some of an account's positions.
LEMMA ValueAtHas ==
  ASSUME NEW held \in Portfolio, NEW I \in SUBSET DOMAIN held
  PROVE  ValueAt(held, I) \in Int
<1>1. IsFiniteSet(I)
  BY PortfolioHas, FS_Subset
<1>2. IntOn([i \in DOMAIN held |-> held[i].value], I)
  BY PortfolioHas DEF IntOn
<1> QED
  BY <1>1, <1>2, SumRecursion DEF ValueAt

\* Each position is at the places of one symbol.
LEMMA BySymbol ==
  ASSUME NEW held \in Portfolio
  PROVE  SumFunctionOnSet([s \in Symbols |-> ValueAt(held, Of(s, held))], Symbols) = ValueOf(held)
<1> DEFINE D == DOMAIN held
           v == [i \in D |-> held[i].value]
           part(T, s) == T \cap Of(s, held)
           parts(T) == [s \in Symbols |-> SumFunctionOnSet(v, part(T, s))]
           h == [T \in SUBSET D |-> SumFunctionOnSet(parts(T), Symbols)]
<1>1. IsFiniteSet(D) /\ IsFiniteSet(Symbols) /\ IntOn(v, D)
  BY PortfolioHas, CrossAssumption DEF IntOn
<1>2. ASSUME NEW T \in SUBSET D, NEW s \in Symbols
      PROVE  /\ part(T, s) \in SUBSET D /\ IsFiniteSet(part(T, s)) /\ IntOn(v, part(T, s))
             /\ parts(T)[s] = SumFunctionOnSet(v, part(T, s))
  BY <1>1, FS_Subset DEF IntOn
<1>3. ASSUME NEW T \in SUBSET D PROVE IntOn(parts(T), Symbols)
  <2>1. \A s \in Symbols : SumFunctionOnSet(v, part(T, s)) \in Int
    BY <1>2, SumRecursion
  <2> QED
    BY <2>1 DEF IntOn
<1>4. h[{}] = 0
  <2>1. \A s \in Symbols : part({}, s) = {}
    OBVIOUS
  <2>2. SumFunctionOnSet(v, {}) = 0
    BY <1>1, SumRecursion
  <2>3. \A s \in Symbols : parts({})[s] = 0
    BY <2>1, <2>2
  <2>4. SumFunctionOnSet(parts({}), Symbols) = Cardinality(Symbols) * 0
    <3> HIDE DEF parts
    <3> QED
      BY <1>1, <2>3, SumConst
  <2>5. Cardinality(Symbols) \in Nat
    BY <1>1, FS_CardinalityType
  <2>6. h[{}] = SumFunctionOnSet(parts({}), Symbols)
    OBVIOUS
  <2> QED
    BY <2>4, <2>5, <2>6
<1>5. ASSUME NEW T \in SUBSET D, NEW x \in T PROVE h[T] = v[x] + h[T \ {x}]
  <2> DEFINE U == T \ {x}
             a == held[x].symbol
             p == [s \in Symbols |-> IF s = a THEN v[x] ELSE 0]
  <2>1. a \in Symbols /\ v[x] \in Int /\ U \in SUBSET D
    BY PortfolioHas
  <2>2. ASSUME NEW s \in Symbols PROVE parts(T)[s] = p[s] + parts(U)[s]
    <3>1. CASE s = a
      <4>1. x \in part(T, s) /\ part(T, s) \ {x} = part(U, s)
        BY <3>1 DEF Of
      <4>2. SumFunctionOnSet(v, part(T, s)) = v[x] + SumFunctionOnSet(v, part(T, s) \ {x})
        <5>1. \A P : IsFiniteSet(P) /\ IntOn(v, P) =>
                     \A y \in P : SumFunctionOnSet(v, P) = v[y] + SumFunctionOnSet(v, P \ {y})
          BY SumRecursion
        <5>2. IsFiniteSet(part(T, s)) /\ IntOn(v, part(T, s))
          BY <1>2, Zenon
        <5>3. x \in part(T, s)
          BY <4>1
        <5> HIDE DEF part, v
        <5> QED
          BY <5>1, <5>2, <5>3, Zenon
      <4> QED
        BY <3>1, <4>1, <4>2
    <3>2. CASE s # a
      <4>1. part(T, s) = part(U, s)
        BY <3>2 DEF Of
      <4>2. parts(T)[s] = parts(U)[s] /\ parts(U)[s] \in Int /\ p[s] = 0
        BY <1>3, <2>1, <3>2, <4>1 DEF IntOn
      <4> QED
        BY <4>2
    <3> QED
      BY <3>1, <3>2
  <2>3. IntOn(p, Symbols) /\ IntOn(parts(U), Symbols)
    <3>1. IntOn(p, Symbols)
      BY <2>1 DEF IntOn
    <3> HIDE DEF parts, U
    <3>2. IntOn(parts(U), Symbols)
      BY <1>3, <2>1
    <3> QED
      BY <3>1, <3>2
  <2>4. SumFunctionOnSet(p, Symbols) = v[x]
    <3>1. \A s \in Symbols : p[s] = IF s = a THEN v[x] ELSE 0
      OBVIOUS
    <3> HIDE DEF p, v, a
    <3> QED
      BY <1>1, <2>1, <3>1, SumPoint
  <2>5. SumFunctionOnSet(parts(T), Symbols)
          = SumFunctionOnSet(p, Symbols) + SumFunctionOnSet(parts(U), Symbols)
    <3> HIDE DEF p, parts, U
    <3> QED
      BY <1>1, <2>2, <2>3, SumPlus
  <2>6. h[T] = SumFunctionOnSet(parts(T), Symbols) /\ h[U] = SumFunctionOnSet(parts(U), Symbols)
    OBVIOUS
  <2> QED
    BY <2>4, <2>5, <2>6
<1>6. h[D] = SumFunctionOnSet([s \in Symbols |-> ValueAt(held, Of(s, held))], Symbols)
  <2>1. \A s \in Symbols : part(D, s) = Of(s, held)
    BY DEF Of
  <2>2. \A s \in Symbols : SumFunctionOnSet(v, part(D, s)) = ValueAt(held, Of(s, held))
    BY <2>1 DEF ValueAt
  <2>3. parts(D) = [s \in Symbols |-> ValueAt(held, Of(s, held))]
    BY <2>2
  <2> QED
    BY <2>3
<1>0. IsSum(h, v, D)
  <2>1. \A T \in SUBSET D : \A x \in T : h[T] = v[x] + h[T \ {x}]
    BY <1>5
  <2>2. \A T \in SUBSET D : SumFunctionOnSet(parts(T), Symbols) \in Int
    <3> HIDE DEF parts
    <3> QED
      BY <1>1, <1>3, SumRecursion
  <2>3. h \in [SUBSET D -> Int]
    BY <2>2
  <2> HIDE DEF h, v, D
  <2> QED
    BY <1>4, <2>1, <2>3 DEF IsSum
<1>7. ValueOf(held) = SumFunctionOnSet(v, D)
  BY DEF ValueOf, ValueAt
<1> HIDE DEF h, v, D
<1>8. SumFunctionOnSet(v, D) = h[D]
  BY <1>0, <1>1, SumIs
<1> QED
  BY <1>6, <1>7, <1>8

\* What Schwab may answer for one account.
LEMMA ResponseHas ==
  ASSUME NEW r \in Account \cup {ErrorResponse}
  PROVE  /\ r.ok \in BOOLEAN /\ r.positions \in Portfolio /\ r.liquidation \in Int
         /\ ValueOf(r.positions) \in Int /\ Len(r.positions) \in 0..MaxHeld
         /\ ~r.ok => ValueOf(r.positions) = 0 /\ r.liquidation = 0
<1>1. r.positions \in Portfolio => ValueOf(r.positions) \in Int /\ Len(r.positions) \in 0..MaxHeld
  BY PortfolioHas, ValueAtHas DEF ValueOf
<1>2. CASE r \in Account
  <2>1. r.ok = TRUE /\ r.positions \in Portfolio /\ r.liquidation \in Liquidations
    BY <1>2 DEF Account
  <2> QED
    BY <1>1, <2>1, CrossAssumption
<1>3. CASE r = ErrorResponse
  <2>1. r.ok = FALSE /\ r.positions = <<>> /\ r.liquidation = 0
    BY <1>3 DEF ErrorResponse
  <2>2. <<>> \in [1..0 -> HeldPosition] /\ 0 \in 0..MaxHeld
    BY CrossAssumption
  <2>3. r.positions \in Portfolio
    BY <2>1, <2>2 DEF Portfolio
  <2>4. ValueOf(<<>>) = 0
    <3>1. DOMAIN <<>> = {}
      OBVIOUS
    <3>2. \A f : SumFunctionOnSet(f, {}) = 0
      BY FS_EmptySet, SumRecursion DEF IntOn
    <3> QED
      BY <3>1, <3>2 DEF ValueOf, ValueAt
  <2> QED
    BY <1>1, <2>1, <2>3, <2>4
<1> QED
  BY <1>2, <1>3

\* The columns of per_account.
Markets(es) == [i \in DOMAIN es |-> es[i].market]
Liquidated(es) == [i \in DOMAIN es |-> es[i].liquidation]
Shares(es) == [i \in DOMAIN es |-> es[i].share]

\* The columns are finite and of integers.
LEMMA ColumnTypes ==
  ASSUME NEW es \in Seq(Entry)
  PROVE  /\ DOMAIN es = 1..Len(es) /\ Len(es) \in Nat /\ IsFiniteSet(DOMAIN es)
         /\ \A i \in DOMAIN es : /\ es[i] \in Entry
                                 /\ es[i].market \in Int /\ es[i].liquidation \in Int
                                 /\ es[i].share \in Int /\ es[i].ok \in BOOLEAN
<1>1. DOMAIN es = 1..Len(es) /\ Len(es) \in Nat /\ \A i \in 1..Len(es) : es[i] \in Entry
  OBVIOUS
<1>2. \A e \in Entry : /\ e.market \in Int /\ e.liquidation \in Int
                       /\ e.share \in Int /\ e.ok \in BOOLEAN
  BY DEF Entry
<1> QED
  BY <1>1, <1>2, FS_Interval

\* One more account adds to each column.
LEMMA ColumnsAppended ==
  ASSUME NEW es \in Seq(Entry), NEW e \in Entry
  PROVE  /\ SumFunction(Markets(Append(es, e))) = SumFunction(Markets(es)) + e.market
         /\ SumFunction(Liquidated(Append(es, e))) = SumFunction(Liquidated(es)) + e.liquidation
<1> DEFINE n == Len(es)
           f == Markets(Append(es, e))
           g == Liquidated(Append(es, e))
<1>1. /\ DOMAIN es = 1..n /\ n \in Nat /\ Append(es, e) \in Seq(Entry)
      /\ DOMAIN Append(es, e) = 1..n + 1
      /\ Append(es, e)[n + 1] = e /\ \A i \in 1..n : Append(es, e)[i] = es[i]
  OBVIOUS
<1>2. IntOn(f, 1..n + 1) /\ IntOn(g, 1..n + 1)
  BY <1>1, ColumnTypes DEF IntOn, Markets, Liquidated
<1>3. /\ DOMAIN f = 1..n + 1 /\ DOMAIN Markets(es) = 1..n
      /\ DOMAIN g = 1..n + 1 /\ DOMAIN Liquidated(es) = 1..n
      /\ n + 1 \in 1..n + 1
  BY <1>1 DEF Markets, Liquidated
<1>4. /\ f[n + 1] = e.market /\ \A i \in 1..n : Markets(es)[i] = f[i]
      /\ g[n + 1] = e.liquidation /\ \A i \in 1..n : Liquidated(es)[i] = g[i]
  BY <1>1, <1>3 DEF Markets, Liquidated
<1> HIDE DEF f, g, n
<1>5. SumFunctionOnSet(f, 1..n + 1) = SumFunctionOnSet(Markets(es), 1..n) + f[n + 1]
  BY <1>1, <1>2, <1>4, SumAppended
<1>6. SumFunctionOnSet(g, 1..n + 1) = SumFunctionOnSet(Liquidated(es), 1..n) + g[n + 1]
  BY <1>1, <1>2, <1>4, SumAppended
<1>7. /\ SumFunction(f) = SumFunctionOnSet(f, 1..n + 1)
      /\ SumFunction(g) = SumFunctionOnSet(g, 1..n + 1)
      /\ SumFunction(Markets(es)) = SumFunctionOnSet(Markets(es), 1..n)
      /\ SumFunction(Liquidated(es)) = SumFunctionOnSet(Liquidated(es), 1..n)
  BY <1>3 DEF SumFunction
<1>8. f[n + 1] = e.market /\ g[n + 1] = e.liquidation
  BY <1>4
<1> USE DEF f, g
<1> QED
  BY <1>5, <1>6, <1>7, <1>8

-----------------------------------------------------------------------------

\* A row of per_account is what Schwab answered for the account.
Row(i) ==
  /\ entries[i].account = hashes[i]
  /\ entries[i].ok = fetched[i].ok
  /\ entries[i].market = ValueOf(fetched[i].positions)
  /\ entries[i].liquidation = fetched[i].liquidation
  /\ ~entries[i].ok => /\ entries[i].market = 0 /\ entries[i].liquidation = 0
                       /\ entries[i].share = 0
  /\ crossStep # "done" => entries[i].share = 0

Rows ==
  /\ Len(fetched) = Len(entries)
  /\ Len(entries) <= Len(hashes)
  /\ crossStep = "discover" => entries = <<>>
  /\ \A i \in 1..Len(entries) : Row(i)

\* The totals are those of the columns, and the roll-up has the same total.
Totals ==
  /\ grand.market = SumFunction(Markets(entries))
  /\ grand.liquidation = SumFunction(Liquidated(entries))
  /\ SumFunction([s \in Symbols |-> rollup[s].value]) = grand.market

CrossInv ==
  /\ CrossTypeOK
  /\ Rows
  /\ Totals
  /\ crossStep # "done" => crossAnswer = "none"
  /\ crossAnswer = "ok" => Len(entries) = Len(hashes)
  /\ SharesAddUp

\* Before the accounts are discovered.
LEMMA CrossInitHolds == CrossInit => CrossInv
<1> SUFFICES ASSUME CrossInit PROVE CrossInv
  OBVIOUS
<1>1. CrossTypeOK
  BY DEF CrossInit, CrossTypeOK
<1>2. Rows
  BY DEF CrossInit, Rows
<1>3. Totals
  <2>1. \A f : DOMAIN f = {} => SumFunction(f) = 0
    BY FS_EmptySet, SumRecursion DEF IntOn, SumFunction
  <2>2. SumFunction([s \in Symbols |-> rollup[s].value]) = 0
    <3> DEFINE f == [s \in Symbols |-> rollup[s].value]
    <3>1. \A s \in Symbols : f[s] = 0
      BY DEF CrossInit
    <3>2. DOMAIN f = Symbols
      OBVIOUS
    <3> HIDE DEF f
    <3>3. SumFunctionOnSet(f, Symbols) = Cardinality(Symbols) * 0
      BY <3>1, CrossAssumption, SumConst
    <3>4. Cardinality(Symbols) \in Nat
      BY CrossAssumption, FS_CardinalityType
    <3>5. SumFunction(f) = 0
      BY <3>2, <3>3, <3>4 DEF SumFunction
    <3> QED
      BY <3>5 DEF f
  <2>3. DOMAIN Markets(entries) = {} /\ DOMAIN Liquidated(entries) = {}
    BY DEF CrossInit, Markets, Liquidated
  <2> QED
    BY <2>1, <2>2, <2>3 DEF CrossInit, Totals
<1> QED
  BY <1>1, <1>2, <1>3 DEF CrossInit, CrossInv, SharesAddUp

\* The views agree because they are made of the same rows.
LEMMA ViewsOfMarket ==
  ASSUME CrossInv
  PROVE  MarketValueAgrees
<1> DEFINE answered == [i \in DOMAIN fetched |-> ValueOf(fetched[i].positions)]
<1>1. entries \in Seq(Entry) /\ fetched \in Seq(Account \cup {ErrorResponse}) /\ Len(fetched) = Len(entries)
  BY DEF CrossInv, CrossTypeOK, Rows
<1>2. /\ DOMAIN fetched = DOMAIN entries /\ IsFiniteSet(DOMAIN entries)
      /\ DOMAIN entries = 1..Len(entries)
  BY <1>1, ColumnTypes
<1>3. IntOn(Markets(entries), DOMAIN entries)
  BY <1>1, ColumnTypes DEF IntOn, Markets
<1>4. \A i \in DOMAIN entries : answered[i] = Markets(entries)[i]
  BY <1>2 DEF CrossInv, Rows, Row, Markets
<1>5. DOMAIN answered = DOMAIN entries /\ DOMAIN Markets(entries) = DOMAIN entries
  BY <1>2 DEF Markets
<1> HIDE DEF answered
<1>6. SumFunctionOnSet(answered, DOMAIN entries) = SumFunctionOnSet(Markets(entries), DOMAIN entries)
  BY <1>2, <1>3, <1>4, SumSame
<1>7. SumFunction(answered) = SumFunction(Markets(entries))
  BY <1>5, <1>6 DEF SumFunction
<1> USE DEF answered
<1> QED
  BY <1>7 DEF CrossInv, Totals, MarketValueAgrees, Markets

\* The rows are in the order of the hashes.
LEMMA RowsReported == CrossInv => EveryAccountReported
BY DEF CrossInv, Rows, Row, EveryAccountReported

\* An account is recorded: one row more.
LEMMA RecordKeeps ==
  ASSUME CrossTypeOK, Rows, Fetching, NEW r \in Account \cup {ErrorResponse},
         Record(r, ValueOf(r.positions))
  PROVE  /\ hashes' \in Seq(Accounts) /\ fetched' \in Seq(Account \cup {ErrorResponse})
         /\ entries' \in Seq(Entry)
         /\ Rows'
         /\ SumFunction(Markets(entries')) = SumFunction(Markets(entries)) + ValueOf(r.positions)
         /\ SumFunction(Liquidated(entries')) = SumFunction(Liquidated(entries)) + r.liquidation
<1>0. PICK n \in Nat : n = Len(entries)
  BY DEF CrossTypeOK
<1> DEFINE e == [account |-> hashes[n + 1], ok |-> r.ok,
               position_count |-> Len(r.positions), market |-> ValueOf(r.positions),
               liquidation |-> r.liquidation, share |-> 0]
<1>1. /\ hashes \in Seq(Accounts) /\ fetched \in Seq(Account \cup {ErrorResponse})
      /\ entries \in Seq(Entry) /\ n \in Nat /\ n = Len(entries)
  BY <1>0 DEF CrossTypeOK
<1>2. /\ crossStep = "fetch" /\ n < Len(hashes)
      /\ fetched' = Append(fetched, r) /\ entries' = Append(entries, e)
      /\ UNCHANGED <<crossStep, hashes>>
  BY <1>0 DEF Fetching, Record
<1>3. hashes[n + 1] \in Accounts
  <2>1. n + 1 \in 1..Len(hashes)
    BY <1>1, <1>2
  <2> QED
    BY <1>1, <2>1
<1>4. /\ r.ok \in BOOLEAN /\ r.liquidation \in Int /\ ValueOf(r.positions) \in Int
      /\ Len(r.positions) \in 0..MaxHeld /\ 0 \in Int
      /\ ~r.ok => ValueOf(r.positions) = 0 /\ r.liquidation = 0
  BY ResponseHas
<1>5. e \in Entry
  BY <1>3, <1>4 DEF Entry
<1>6. /\ e.account = hashes[n + 1] /\ e.ok = r.ok /\ e.market = ValueOf(r.positions)
      /\ e.liquidation = r.liquidation /\ e.share = 0
  OBVIOUS
<1> HIDE DEF e
<1>7. /\ Len(fetched) = n /\ Len(fetched') = n + 1 /\ Len(entries') = n + 1
      /\ fetched'[n + 1] = r /\ entries'[n + 1] = e
      /\ \A i \in 1..n : fetched'[i] = fetched[i] /\ entries'[i] = entries[i]
  BY <1>1, <1>2 DEF Rows
<1>8. \A i \in 1..n : Row(i)
  BY <1>0 DEF Rows
<1>9. ASSUME NEW i \in 1..n PROVE Row(i)'
  <2>1. Row(i)
    BY <1>8
  <2>2. fetched'[i] = fetched[i] /\ entries'[i] = entries[i]
    BY <1>7
  <2> QED
    BY <1>2, <2>1, <2>2 DEF Row
<1>10. Row(n + 1)'
  BY <1>2, <1>4, <1>6, <1>7 DEF Row
<1>11. Rows'
  <2>1. \A i \in 1..Len(entries') : Row(i)'
    <3> SUFFICES ASSUME NEW i \in 1..n + 1 PROVE Row(i)'
      BY <1>7
    <3>1. i \in 1..n \/ i = n + 1
      BY <1>1
    <3> QED
      BY <1>9, <1>10, <3>1
  <2>2. Len(entries') <= Len(hashes')
    BY <1>1, <1>2, <1>7
  <2> QED
    BY <1>2, <1>7, <2>1, <2>2 DEF Rows
<1>12. fetched' \in Seq(Account \cup {ErrorResponse}) /\ entries' \in Seq(Entry)
  BY <1>1, <1>2, <1>5
<1>13. /\ SumFunction(Markets(entries')) = SumFunction(Markets(entries)) + e.market
       /\ SumFunction(Liquidated(entries')) = SumFunction(Liquidated(entries)) + e.liquidation
  BY <1>1, <1>2, <1>5, ColumnsAppended
<1> QED
  BY <1>1, <1>2, <1>6, <1>11, <1>12, <1>13

\* The roll-up grows by the value of the account.
LEMMA RollupGrows ==
  ASSUME CrossTypeOK, NEW held \in Portfolio,
         rollup' = [s \in Symbols |->
            [value |-> rollup[s].value + ValueAt(held, Of(s, held)),
             account_count |-> rollup[s].account_count + Cardinality(Of(s, held))]]
  PROVE  /\ rollup' \in [Symbols -> [value: Int, account_count: Nat]]
         /\ SumFunction([s \in Symbols |-> rollup'[s].value])
              = SumFunction([s \in Symbols |-> rollup[s].value]) + ValueOf(held)
<1> DEFINE f == [s \in Symbols |-> rollup[s].value]
           g == [s \in Symbols |-> ValueAt(held, Of(s, held))]
           r == [s \in Symbols |-> rollup'[s].value]
<1>1. \A s \in Symbols : rollup[s].value \in Int /\ rollup[s].account_count \in Nat
  BY DEF CrossTypeOK
<1>2. \A s \in Symbols : /\ Of(s, held) \in SUBSET DOMAIN held
                         /\ ValueAt(held, Of(s, held)) \in Int
  BY ValueAtHas DEF Of
<1>3. \A s \in Symbols : Cardinality(Of(s, held)) \in Nat
  BY <1>2, PortfolioHas, FS_Subset, FS_CardinalityType
<1>4. \A s \in Symbols : r[s] = f[s] + g[s]
  OBVIOUS
<1>5. IntOn(f, Symbols) /\ IntOn(g, Symbols)
  BY <1>1, <1>2 DEF IntOn
<1>6. SumFunctionOnSet(g, Symbols) = ValueOf(held)
  BY BySymbol
<1>7. DOMAIN f = Symbols /\ DOMAIN r = Symbols
  OBVIOUS
<1>8. rollup' \in [Symbols -> [value: Int, account_count: Nat]]
  BY <1>1, <1>2, <1>3
<1> HIDE DEF f, g, r
<1>9. SumFunctionOnSet(r, Symbols) = SumFunctionOnSet(f, Symbols) + SumFunctionOnSet(g, Symbols)
  BY <1>4, <1>5, CrossAssumption, SumPlus
<1>10. SumFunction(r) = SumFunction(f) + ValueOf(held)
  BY <1>6, <1>7, <1>9 DEF SumFunction
<1> USE DEF f, r
<1> QED
  BY <1>8, <1>10

\* The shares are the liquidation values, or all zero when the grand total is.
LEMMA ShareAddsUp ==
  ASSUME CrossInv, Share
  PROVE  /\ entries' \in Seq(Entry) /\ Rows' /\ SharesAddUp'
         /\ SumFunction(Markets(entries')) = SumFunction(Markets(entries))
         /\ SumFunction(Liquidated(entries')) = SumFunction(Liquidated(entries))
<1> DEFINE n == Len(entries)
<1>1. /\ crossStep = "fetch" /\ crossStep' = "done" /\ UNCHANGED <<hashes, fetched, rollup, grand>>
      /\ entries' = [i \in DOMAIN entries |->
           IF entries[i].ok /\ grand.liquidation # 0
           THEN [entries[i] EXCEPT !.share = entries[i].share + entries[i].liquidation]
           ELSE entries[i]]
  BY DEF Share
<1>2. entries \in Seq(Entry) /\ grand.liquidation \in Int
  BY DEF CrossInv, CrossTypeOK
<1>3. /\ DOMAIN entries = 1..n /\ n \in Nat /\ IsFiniteSet(1..n)
      /\ \A i \in 1..n : /\ entries[i] \in Entry
                         /\ entries[i].market \in Int /\ entries[i].liquidation \in Int
                         /\ entries[i].share \in Int /\ entries[i].ok \in BOOLEAN
  BY <1>2, ColumnTypes
<1>4. \A i \in 1..n : Row(i)
  BY DEF CrossInv, Rows
<1>5. ASSUME NEW e \in Entry, NEW x \in Int
      PROVE  /\ [e EXCEPT !.share = x] \in Entry
             /\ [e EXCEPT !.share = x].share = x
             /\ [e EXCEPT !.share = x].account = e.account
             /\ [e EXCEPT !.share = x].ok = e.ok
             /\ [e EXCEPT !.share = x].market = e.market
             /\ [e EXCEPT !.share = x].liquidation = e.liquidation
  BY DEF Entry
<1>6. ASSUME NEW i \in 1..n
      PROVE  /\ entries'[i] \in Entry
             /\ entries'[i].account = entries[i].account
             /\ entries'[i].ok = entries[i].ok
             /\ entries'[i].market = entries[i].market
             /\ entries'[i].liquidation = entries[i].liquidation
             /\ entries'[i].share = IF grand.liquidation # 0 THEN entries[i].liquidation ELSE 0
             /\ ~entries[i].ok => entries'[i].share = 0
  <2>1. entries[i].share = 0 /\ (~entries[i].ok => entries[i].liquidation = 0)
    BY <1>1, <1>4 DEF Row
  <2>2. CASE entries[i].ok /\ grand.liquidation # 0
    <3>1. entries'[i] = [entries[i] EXCEPT !.share = entries[i].liquidation]
      <4>1. entries[i].share + entries[i].liquidation = entries[i].liquidation
        BY <1>3, <2>1
      <4> QED
        BY <1>1, <1>3, <2>2, <4>1
    <3> DEFINE e == entries[i]
               w == [e EXCEPT !.share = e.liquidation]
    <3>2. e \in Entry /\ e.liquidation \in Int
      BY <1>3
    <3> HIDE DEF e
    <3>3. /\ w \in Entry /\ w.share = e.liquidation /\ w.account = e.account
          /\ w.ok = e.ok /\ w.market = e.market /\ w.liquidation = e.liquidation
      BY <1>5, <3>2
    <3> HIDE DEF w
    <3>4. entries'[i] = w
      BY <3>1 DEF e, w
    <3> QED
      BY <2>2, <3>3, <3>4 DEF e
  <2>3. CASE ~(entries[i].ok /\ grand.liquidation # 0)
    <3>1. entries'[i] = entries[i]
      BY <1>1, <1>3, <2>3
    <3> QED
      BY <1>3, <2>1, <2>3, <3>1
  <2> QED
    BY <2>2, <2>3
<1>7. entries' \in Seq(Entry) /\ Len(entries') = n /\ DOMAIN entries' = 1..n
  <2>1. entries' \in [1..n -> Entry]
    BY <1>1, <1>3, <1>6
  <2> QED
    BY <1>3, <2>1
<1>8. Rows'
  <2>1. ASSUME NEW i \in 1..n PROVE Row(i)'
    <3>1. Row(i)
      BY <1>4
    <3> QED
      BY <1>1, <1>6, <3>1 DEF Row
  <2>2. Len(fetched) = n /\ n <= Len(hashes)
    BY DEF CrossInv, Rows
  <2> QED
    BY <1>1, <1>7, <2>1, <2>2 DEF Rows
<1>9. /\ DOMAIN Markets(entries') = 1..n /\ DOMAIN Markets(entries) = 1..n
      /\ DOMAIN Liquidated(entries') = 1..n /\ DOMAIN Liquidated(entries) = 1..n
      /\ DOMAIN Shares(entries') = 1..n
  BY <1>3, <1>7 DEF Markets, Liquidated, Shares
<1>10. IntOn(Markets(entries), 1..n) /\ IntOn(Liquidated(entries), 1..n)
  BY <1>3 DEF Markets, Liquidated, IntOn
<1>11. SumFunction(Markets(entries')) = SumFunction(Markets(entries))
  <2>1. \A i \in 1..n : Markets(entries')[i] = Markets(entries)[i]
    BY <1>3, <1>6, <1>7 DEF Markets
  <2>2. SumFunctionOnSet(Markets(entries'), 1..n) = SumFunctionOnSet(Markets(entries), 1..n)
    BY <1>3, <1>10, <2>1, SumSame
  <2> QED
    BY <1>9, <2>2 DEF SumFunction
<1>12. SumFunction(Liquidated(entries')) = SumFunction(Liquidated(entries))
  <2>1. \A i \in 1..n : Liquidated(entries')[i] = Liquidated(entries)[i]
    BY <1>3, <1>6, <1>7 DEF Liquidated
  <2>2. SumFunctionOnSet(Liquidated(entries'), 1..n) = SumFunctionOnSet(Liquidated(entries), 1..n)
    BY <1>3, <1>10, <2>1, SumSame
  <2> QED
    BY <1>9, <2>2 DEF SumFunction
<1>13. SumFunction(Shares(entries')) = grand.liquidation
  <2>1. CASE grand.liquidation # 0
    <3>1. \A i \in 1..n : Shares(entries')[i] = Liquidated(entries)[i]
      BY <1>3, <1>6, <1>7, <2>1 DEF Liquidated, Shares
    <3>2. SumFunctionOnSet(Shares(entries'), 1..n) = SumFunctionOnSet(Liquidated(entries), 1..n)
      BY <1>3, <1>10, <3>1, SumSame
    <3>3. grand.liquidation = SumFunction(Liquidated(entries))
      BY DEF CrossInv, Totals
    <3> QED
      BY <1>9, <3>2, <3>3 DEF SumFunction
  <2>2. CASE grand.liquidation = 0
    <3>1. \A i \in 1..n : Shares(entries')[i] = 0
      BY <1>6, <1>7, <2>2 DEF Shares
    <3>2. SumFunctionOnSet(Shares(entries'), 1..n) = Cardinality(1..n) * 0
      BY <1>3, <3>1, SumConst
    <3>3. Cardinality(1..n) \in Nat
      BY <1>3, FS_CardinalityType
    <3> QED
      BY <1>9, <2>2, <3>2, <3>3 DEF SumFunction
  <2> QED
    BY <2>1, <2>2
<1>14. SharesAddUp'
  <2>1. \A i \in DOMAIN entries' : entries'[i].share # 0 => grand.liquidation # 0
    BY <1>6, <1>7
  <2> QED
    BY <1>1, <1>13, <2>1 DEF SharesAddUp, Shares
<1> QED
  BY <1>7, <1>8, <1>11, <1>12, <1>14

\* A step that leaves the rows and the totals as they are.
LEMMA RowsStand ==
  ASSUME CrossInv, UNCHANGED <<fetched, entries, rollup, grand>>,
         crossAnswer' # "ok",
         UNCHANGED hashes \/ (crossStep = "discover" /\ hashes' \in Seq(Accounts)),
         crossStep' \in {"fetch", "done"}, crossStep # "done",
         crossAnswer' \in {"none", "error", "raised"},
         crossStep' # "done" => crossAnswer' = "none"
  PROVE  CrossInv'
<1>1. CrossTypeOK'
  BY DEF CrossInv, CrossTypeOK
<1>2. Rows'
  <2>1. CASE UNCHANGED hashes
    <3>1. \A i \in 1..Len(entries) : Row(i)
      BY DEF CrossInv, Rows
    <3>2. ASSUME NEW i \in 1..Len(entries) PROVE Row(i)'
      BY <2>1, <3>1 DEF Row
    <3> QED
      BY <2>1, <3>2 DEF CrossInv, Rows
  <2>2. CASE crossStep = "discover" /\ hashes' \in Seq(Accounts)
    <3>1. entries = <<>> /\ Len(fetched) = Len(entries) /\ Len(hashes') \in Nat
      BY <2>2 DEF CrossInv, Rows
    <3> QED
      BY <3>1 DEF Rows
  <2> QED
    BY <2>1, <2>2
<1>3. Totals' /\ SharesAddUp'
  BY DEF CrossInv, Totals, SharesAddUp
<1> QED
  BY <1>1, <1>2, <1>3 DEF CrossInv

\* The summary keeps its part, an account at a time.
LEMMA CrossNextKeeps == CrossInv /\ CrossNext => CrossInv'
<1> SUFFICES ASSUME CrossInv, CrossNext PROVE CrossInv'
  OBVIOUS
<1>1. CASE Discover
  <2>1. hashes' \in Seq(Accounts)
    <3>1. PICK T \in SUBSET Accounts : hashes' \in SetToSeqs(T)
      BY <1>1 DEF Discover, SetToAllKPermutations
    <3>2. hashes' \in [1..Cardinality(T) -> T] /\ Cardinality(T) \in Nat
      BY <3>1, CrossAssumption, FS_Subset, FS_CardinalityType DEF SetToSeqs
    <3> QED
      BY <3>2
  <2>2. crossAnswer = "none"
    BY <1>1 DEF Discover, CrossInv
  <2> QED
    BY <1>1, <2>1, <2>2, RowsStand DEF Discover
<1>2. CASE DiscoverFails
  BY <1>2, RowsStand DEF DiscoverFails
<1>3. CASE FetchAccount
  <2>1. PICK r \in Account :
          /\ Record(r, ValueOf(r.positions))
          /\ rollup' = [s \in Symbols |->
               [value |-> rollup[s].value + ValueAt(r.positions, Of(s, r.positions)),
                account_count |-> rollup[s].account_count + Cardinality(Of(s, r.positions))]]
          /\ grand' = [market |-> grand.market + ValueOf(r.positions),
                       liquidation |-> grand.liquidation + r.liquidation]
    BY <1>3 DEF FetchAccount
  <2>2. Fetching /\ CrossTypeOK /\ Rows /\ crossStep = "fetch"
    BY <1>3 DEF FetchAccount, CrossInv, Fetching
  <2>3. UNCHANGED <<crossStep, crossAnswer>>
    BY <2>1 DEF Record
  <2>4. /\ r.positions \in Portfolio /\ r.liquidation \in Int /\ ValueOf(r.positions) \in Int
    BY ResponseHas
  <2>5. /\ hashes' \in Seq(Accounts) /\ fetched' \in Seq(Account \cup {ErrorResponse})
        /\ entries' \in Seq(Entry)
        /\ Rows'
        /\ SumFunction(Markets(entries')) = SumFunction(Markets(entries)) + ValueOf(r.positions)
        /\ SumFunction(Liquidated(entries')) = SumFunction(Liquidated(entries)) + r.liquidation
    BY <2>1, <2>2, RecordKeeps
  <2>6. /\ rollup' \in [Symbols -> [value: Int, account_count: Nat]]
        /\ SumFunction([s \in Symbols |-> rollup'[s].value])
             = SumFunction([s \in Symbols |-> rollup[s].value]) + ValueOf(r.positions)
    BY <2>1, <2>2, <2>4, RollupGrows
  <2>7. grand' \in [market: Int, liquidation: Int]
    BY <2>1, <2>2, <2>4 DEF CrossTypeOK
  <2>8. CrossTypeOK'
    BY <2>2, <2>3, <2>5, <2>6, <2>7 DEF CrossTypeOK
  <2>9. Totals'
    <3>1. Totals
      BY DEF CrossInv
    <3>2. grand'.market = grand.market + ValueOf(r.positions)
      BY <2>1
    <3>3. grand'.liquidation = grand.liquidation + r.liquidation
      BY <2>1
    <3> QED
      BY <2>5, <2>6, <3>1, <3>2, <3>3 DEF Totals
  <2> QED
    BY <2>2, <2>3, <2>5, <2>8, <2>9 DEF CrossInv, SharesAddUp
<1>4. CASE FetchError
  <2>1. /\ Fetching /\ Record(ErrorResponse, 0) /\ UNCHANGED <<rollup, grand>>
    BY <1>4 DEF FetchError
  <2>2. CrossTypeOK /\ Rows /\ crossStep = "fetch"
    BY <2>1 DEF CrossInv, Fetching
  <2>3. UNCHANGED <<crossStep, crossAnswer>>
    BY <2>1 DEF Record
  <2>4. ValueOf(ErrorResponse.positions) = 0 /\ ErrorResponse.liquidation = 0
    BY ResponseHas DEF ErrorResponse
  <2>5. Record(ErrorResponse, ValueOf(ErrorResponse.positions))
    BY <2>1, <2>4
  <2>6. /\ hashes' \in Seq(Accounts) /\ fetched' \in Seq(Account \cup {ErrorResponse})
        /\ entries' \in Seq(Entry)
        /\ Rows'
        /\ SumFunction(Markets(entries')) = SumFunction(Markets(entries)) + 0
        /\ SumFunction(Liquidated(entries')) = SumFunction(Liquidated(entries)) + 0
    BY <2>1, <2>2, <2>4, <2>5, RecordKeeps
  <2>7. CrossTypeOK'
    BY <2>1, <2>2, <2>3, <2>6 DEF CrossTypeOK
  <2>8. Totals'
    <3>1. grand.market \in Int /\ grand.liquidation \in Int
      BY <2>2 DEF CrossTypeOK
    <3>2. /\ grand.market = SumFunction(Markets(entries))
          /\ grand.liquidation = SumFunction(Liquidated(entries))
          /\ SumFunction([s \in Symbols |-> rollup[s].value]) = grand.market
      BY DEF CrossInv, Totals
    <3>3. /\ SumFunction(Markets(entries')) = grand.market
          /\ SumFunction(Liquidated(entries')) = grand.liquidation
      BY <2>6, <3>1, <3>2
    <3> QED
      BY <2>1, <3>2, <3>3 DEF Totals
  <2> QED
    BY <2>2, <2>3, <2>6, <2>7, <2>8 DEF CrossInv, SharesAddUp
<1>5. CASE FetchRaises
  BY <1>5, RowsStand DEF FetchRaises, Fetching
<1>6. CASE Share
  <2>1. /\ entries' \in Seq(Entry) /\ Rows' /\ SharesAddUp'
        /\ SumFunction(Markets(entries')) = SumFunction(Markets(entries))
        /\ SumFunction(Liquidated(entries')) = SumFunction(Liquidated(entries))
    BY <1>6, ShareAddsUp
  <2>2. /\ crossAnswer' = "ok" /\ crossStep' = "done" /\ Len(entries) = Len(hashes)
        /\ UNCHANGED <<hashes, fetched, rollup, grand>>
    BY <1>6 DEF Share
  <2>3. CrossTypeOK'
    BY <2>1, <2>2 DEF CrossInv, CrossTypeOK
  <2>4. Totals'
    BY <2>1, <2>2 DEF CrossInv, Totals
  <2>5. Len(entries') = Len(entries)
    BY <2>1, <2>2 DEF CrossInv, Rows
  <2> QED
    BY <2>1, <2>2, <2>3, <2>4, <2>5 DEF CrossInv
<1> QED
  BY <1>1, <1>2, <1>3, <1>4, <1>5, <1>6 DEF CrossNext

-----------------------------------------------------------------------------
(* The concentration analysis *)

\* What is ahead of a holding: none of it is behind it, and of two holdings one
\* is ahead of the other.
LEMMA AheadIsOrder ==
  ASSUME NEW n \in Nat, NEW held \in [1..n -> Nat]
  PROVE  /\ \A i \in 1..n : Ahead(held, i) \in SUBSET 1..n /\ i \notin Ahead(held, i)
         /\ \A i, j \in 1..n : i # j => i \in Ahead(held, j) \/ j \in Ahead(held, i)
         /\ \A i, j \in 1..n : j \in Ahead(held, i) =>
              Ahead(held, j) \in SUBSET Ahead(held, i) /\ held[i] <= held[j]
<1>1. DOMAIN held = 1..n /\ \A i \in 1..n : held[i] \in Nat
  OBVIOUS
<1>2. \A i, j \in 1..n :
        j \in Ahead(held, i) <=> held[j] > held[i] \/ (held[j] = held[i] /\ j < i)
  BY <1>1 DEF Ahead
<1>3. \A i \in 1..n : Ahead(held, i) \in SUBSET 1..n
  BY <1>1 DEF Ahead
<1>4. \A i \in 1..n : i \notin Ahead(held, i)
  BY <1>1, <1>2
<1>5. \A i, j \in 1..n : i # j => i \in Ahead(held, j) \/ j \in Ahead(held, i)
  BY <1>1, <1>2
<1>6. ASSUME NEW i \in 1..n, NEW j \in 1..n, j \in Ahead(held, i)
      PROVE  Ahead(held, j) \in SUBSET Ahead(held, i) /\ held[i] <= held[j]
  <2>1. ASSUME NEW k \in Ahead(held, j) PROVE k \in Ahead(held, i)
    <3>1. k \in 1..n
      BY <1>3
    <3>2. held[k] > held[j] \/ (held[k] = held[j] /\ k < j)
      BY <1>2, <3>1
    <3>3. held[j] > held[i] \/ (held[j] = held[i] /\ j < i)
      BY <1>2, <1>6
    <3>4. held[k] > held[i] \/ (held[k] = held[i] /\ k < i)
      BY <1>1, <3>1, <3>2, <3>3
    <3> QED
      BY <1>2, <3>1, <3>4
  <2>2. held[i] <= held[j]
    BY <1>1, <1>2, <1>6
  <2> QED
    BY <2>1, <2>2
<1> QED
  BY <1>3, <1>4, <1>5, <1>6

\* Each place but the last has, at every number of holdings ahead, one holding:
\* the ranks are the numbers from 0 on.
LEMMA RanksAreTaken ==
  ASSUME NEW n \in Nat, NEW held \in [1..n -> Nat]
  PROVE  /\ \A i \in 1..n : Cardinality(Ahead(held, i)) \in 0..n - 1
         /\ \A r \in 1..n : \E i \in 1..n : Cardinality(Ahead(held, i)) = r - 1
         /\ \A i, j \in 1..n : j \in Ahead(held, i) =>
              Cardinality(Ahead(held, j)) < Cardinality(Ahead(held, i))
<1> DEFINE rank == [i \in 1..n |-> Cardinality(Ahead(held, i))]
<1>1. IsFiniteSet(1..n) /\ Cardinality(1..n) = n
  BY FS_Interval
<1>2. \A i \in 1..n : /\ Ahead(held, i) \in SUBSET 1..n /\ i \notin Ahead(held, i)
                      /\ IsFiniteSet(Ahead(held, i)) /\ Cardinality(Ahead(held, i)) \in Nat
                      /\ Cardinality(Ahead(held, i)) <= n
  BY <1>1, AheadIsOrder, FS_Subset, FS_CardinalityType
<1>3. ASSUME NEW i \in 1..n, NEW j \in 1..n, j \in Ahead(held, i)
      PROVE  Cardinality(Ahead(held, j)) < Cardinality(Ahead(held, i))
  <2>1. Ahead(held, j) \in SUBSET Ahead(held, i)
    BY <1>3, AheadIsOrder
  <2>2. Ahead(held, j) # Ahead(held, i)
    BY <1>2, <1>3
  <2>3. /\ Cardinality(Ahead(held, j)) <= Cardinality(Ahead(held, i))
        /\ Cardinality(Ahead(held, j)) # Cardinality(Ahead(held, i))
    BY <1>2, <2>1, <2>2, FS_Subset
  <2> QED
    BY <1>2, <2>3
<1>4. \A i \in 1..n : Cardinality(Ahead(held, i)) \in 0..n - 1
  <2> SUFFICES ASSUME NEW i \in 1..n PROVE Cardinality(Ahead(held, i)) \in 0..n - 1
    OBVIOUS
  <2>1. Cardinality(Ahead(held, i)) # n
    BY <1>1, <1>2, FS_Subset
  <2> QED
    BY <1>2, <2>1
<1>5. rank \in Injection(1..n, 0..n - 1)
  <2>1. \A i, j \in 1..n : i # j => rank[i] # rank[j]
    <3> SUFFICES ASSUME NEW i \in 1..n, NEW j \in 1..n, i # j PROVE rank[i] # rank[j]
      OBVIOUS
    <3>1. i \in Ahead(held, j) \/ j \in Ahead(held, i)
      BY AheadIsOrder
    <3>2. rank[i] < rank[j] \/ rank[j] < rank[i]
      BY <1>3, <3>1
    <3>3. rank[i] \in Nat /\ rank[j] \in Nat
      BY <1>2
    <3> QED
      BY <3>2, <3>3
  <2>2. rank \in [1..n -> 0..n - 1] /\ DOMAIN rank = 1..n
    BY <1>4
  <2> HIDE DEF rank
  <2>3. IsInjective(rank)
    BY <2>1, <2>2 DEF IsInjective
  <2> QED
    BY <2>2, <2>3 DEF Injection
<1>6. IsFiniteSet(0..n - 1) /\ Cardinality(0..n - 1) = n
  <2>1. 0 \in Int /\ n - 1 \in Int /\ (0 > n - 1 => n = 0) /\ (n - 1) - 0 + 1 = n
    OBVIOUS
  <2>2. /\ IsFiniteSet(0..n - 1)
        /\ Cardinality(0..n - 1) = IF 0 > n - 1 THEN 0 ELSE (n - 1) - 0 + 1
    BY <2>1, FS_Interval, Zenon
  <2> QED
    BY <2>1, <2>2
<1>7. rank \in Surjection(1..n, 0..n - 1)
  <2> HIDE DEF rank
  <2> QED
    BY <1>1, <1>5, <1>6, FS_Injection
<1>8. \A r \in 1..n : \E i \in 1..n : rank[i] = r - 1
  <2>1. \A r \in 1..n : r - 1 \in 0..n - 1
    OBVIOUS
  <2> HIDE DEF rank
  <2> QED
    BY <1>7, <2>1 DEF Surjection
<1> QED
  BY <1>3, <1>4, <1>8

\* The first of the sorted holdings weigh most.
LEMMA TopHoldingsWeighMost ==
  ASSUME NEW n \in Nat, NEW held \in [1..n -> Nat], NEW k \in Nat
  PROVE  /\ TopHoldings(held, k) \in Seq(Nat)
         /\ Len(TopHoldings(held, k)) = Fewer(k, held)
         /\ Fewer(k, held) \in 0..n
         /\ \A I \in SUBSET (1..n) : Cardinality(I) = Fewer(k, held) =>
              SumFunctionOnSet(held, I) <= SumFunction(TopHoldings(held, k))
<1> DEFINE m == Fewer(k, held)
           rank(i) == Cardinality(Ahead(held, i))
           p == [r \in 1..n |-> CHOOSE i \in 1..n : rank(i) = r - 1]
           top == [r \in 1..m |-> held[p[r]]]
           P == {p[r] : r \in 1..m}
<1>1. /\ DOMAIN held = 1..n /\ Len(held) = n /\ \A i \in 1..n : held[i] \in Nat
      /\ IsFiniteSet(1..n) /\ IntOn(held, 1..n)
  <2>1. IsFiniteSet(1..n)
    BY FS_Interval
  <2> QED
    BY <2>1 DEF IntOn
<1>2. m \in Nat /\ m <= n /\ \A r \in 1..m : r \in 1..n
  BY <1>1 DEF Fewer
<1>3. ASSUME NEW r \in 1..n PROVE p[r] \in 1..n /\ rank(p[r]) = r - 1
  <2>1. \E i \in 1..n : rank(i) = r - 1
    BY RanksAreTaken
  <2> HIDE DEF rank
  <2> QED
    BY <2>1
<1>4. TopHoldings(held, k) = top
  <2>1. TopHoldings(held, k) = [r \in 1..m |->
          held[CHOOSE i \in 1..n : Cardinality(Ahead(held, i)) = r - 1]]
    BY <1>1 DEF TopHoldings
  <2>2. \A r \in 1..m : p[r] = CHOOSE i \in 1..n : Cardinality(Ahead(held, i)) = r - 1
    BY <1>2
  <2> HIDE DEF p, m
  <2> QED
    BY <2>1, <2>2
<1>5. \A i, j \in 1..n : j \in Ahead(held, i) => rank(j) < rank(i) /\ held[i] <= held[j]
  BY RanksAreTaken, AheadIsOrder
<1>6. \A i, j \in 1..n : i # j => i \in Ahead(held, j) \/ j \in Ahead(held, i)
  BY AheadIsOrder
<1>7. \A i \in 1..n : rank(i) \in 0..n - 1
  BY RanksAreTaken
<1> HIDE DEF rank
<1>8. \A i, j \in 1..n : rank(i) <= rank(j) => held[j] <= held[i]
  <2> SUFFICES ASSUME NEW i \in 1..n, NEW j \in 1..n, rank(i) <= rank(j)
               PROVE  held[j] <= held[i]
    OBVIOUS
  <2>1. rank(i) \in Nat /\ rank(j) \in Nat /\ held[i] \in Nat
    BY <1>1, <1>7
  <2>2. ~(rank(j) < rank(i)) /\ held[i] <= held[i]
    BY <2>1
  <2> QED
    BY <1>5, <1>6, <2>2
<1>9. \A i, j \in 1..n : rank(i) = rank(j) => i = j
  <2> SUFFICES ASSUME NEW i \in 1..n, NEW j \in 1..n, rank(i) = rank(j), i # j
               PROVE  FALSE
    OBVIOUS
  <2>1. rank(i) < rank(j) \/ rank(j) < rank(i)
    BY <1>5, <1>6
  <2> QED
    BY <1>7, <2>1
<1>10. \A x, y \in 1..m : p[x] = p[y] => x = y
  <2> SUFFICES ASSUME NEW x \in 1..m, NEW y \in 1..m, p[x] = p[y] PROVE x = y
    OBVIOUS
  <2>1. rank(p[x]) = x - 1 /\ rank(p[y]) = y - 1 /\ x \in Nat /\ y \in Nat
    BY <1>2, <1>3
  <2>2. x - 1 = y - 1
    BY <2>1, Zenon
  <2> QED
    BY <2>1, <2>2
<1>11. P \in SUBSET (1..n)
  <2>1. \A r \in 1..m : p[r] \in 1..n
    BY <1>2, <1>3
  <2> HIDE DEF p, m
  <2> QED
    BY <2>1
<1>12. top \in [1..m -> Nat]
  <2>1. \A r \in 1..m : held[p[r]] \in Nat
    BY <1>1, <1>2, <1>3
  <2> HIDE DEF m, p
  <2> QED
    BY <2>1
<1>13. top \in Seq(Nat) /\ Len(top) = m /\ DOMAIN top = 1..m
  <2> HIDE DEF top, m
  <2> QED
    BY <1>2, <1>12
<1>14. \A r \in 1..m : top[r] = held[p[r]]
  OBVIOUS
<1>15. IsFiniteSet(1..m) /\ IntOn(held, P)
  <2> HIDE DEF m, P
  <2>1. IsFiniteSet(1..m)
    BY <1>2, FS_Interval
  <2> QED
    BY <1>1, <1>11, <2>1 DEF IntOn
<1>16. Cardinality(1..m) = m
  <2> HIDE DEF m
  <2> QED
    BY <1>2, FS_Interval
<1>17. /\ Cardinality(P) = Cardinality(1..m)
       /\ SumFunctionOnSet(top, 1..m) = SumFunctionOnSet(held, P)
  <2>1. Reindexed(top, 1..m, p, held, P)
    <3>1. P = {p[r] : r \in 1..m}
      OBVIOUS
    <3> HIDE DEF P, p, m, top
    <3> QED
      BY <1>10, <1>14, <3>1 DEF Reindexed
  <2> HIDE DEF top, p, m, P
  <2> QED
    BY <1>15, <2>1, SumReindexed
<1>18. ASSUME NEW I \in SUBSET (1..n), Cardinality(I) = m
       PROVE  SumFunctionOnSet(held, I) <= SumFunctionOnSet(held, P)
  <2>1. CASE m = 0
    <3>1. IsFiniteSet(I) /\ I = {} /\ IsFiniteSet(P) /\ P = {}
      BY <1>1, <1>11, <1>16, <1>17, <1>18, <2>1, FS_Subset, FS_EmptySet
    <3>2. SumFunctionOnSet(held, {}) \in Int
      BY <1>1, SumRecursion
    <3> HIDE DEF P
    <3> QED
      BY <3>1, <3>2
  <2>2. CASE m # 0
    <3> DEFINE last == p[m]
               c == held[last]
    <3>1. m \in 1..n /\ last \in 1..n /\ rank(last) = m - 1 /\ c \in Int
      <4>1. m \in 1..n
        BY <1>2, <2>2
      <4> QED
        BY <1>1, <1>3, <4>1
    <3>2. ASSUME NEW i \in P PROVE c <= held[i]
      <4>1. PICK r \in 1..m : i = p[r]
        OBVIOUS
      <4>2. i \in 1..n /\ rank(i) = r - 1
        BY <1>2, <1>3, <4>1
      <4>3. rank(i) <= rank(last)
        BY <1>2, <3>1, <4>2
      <4> QED
        BY <1>8, <3>1, <4>2, <4>3
    <3>3. ASSUME NEW i \in (1..n) \ P PROVE held[i] <= c
      <4>1. ~(rank(i) < m)
        <5> SUFFICES ASSUME rank(i) < m PROVE i \in P
          OBVIOUS
        <5>1. rank(i) + 1 \in 1..m /\ (rank(i) + 1) - 1 = rank(i)
          BY <1>2, <1>7
        <5>2. p[rank(i) + 1] \in 1..n /\ rank(p[rank(i) + 1]) = rank(i)
          BY <1>2, <1>3, <5>1
        <5>3. p[rank(i) + 1] = i
          BY <1>9, <5>2
        <5> QED
          BY <5>1, <5>3
      <4>2. rank(last) <= rank(i)
        BY <1>2, <1>7, <3>1, <4>1
      <4> QED
        BY <1>8, <3>1, <4>2
    <3> HIDE DEF c, P
    <3>4. (\A x \in P : c <= held[x]) /\ (\A x \in (1..n) \ P : held[x] <= c)
      BY <3>2, <3>3
    <3>5. Cardinality(I) = Cardinality(P)
      BY <1>16, <1>17, <1>18
    <3> QED
      BY <1>1, <1>11, <3>1, <3>4, <3>5, SumOfHeaviest
  <2> QED
    BY <2>1, <2>2
<1>19. SumFunction(top) = SumFunctionOnSet(top, 1..m)
  <2> HIDE DEF top
  <2> QED
    BY <1>13 DEF SumFunction
<1> HIDE DEF top, P, p
<1> QED
  BY <1>2, <1>4, <1>13, <1>17, <1>18, <1>19

\* The weights of an account.
Magnitudes(held) == [i \in DOMAIN held |-> Magnitude(held[i])]

\* The positions Schwab answers.
Held == UNION {[1..n -> Exposures] : n \in 0..MaxExposed}

\* The magnitudes of the positions, of which the block is computed.
LEMMA MagnitudesNatural ==
  ASSUME NEW held \in Held
  PROVE  /\ held \in Seq(Exposures) /\ Len(held) \in Nat /\ DOMAIN held = 1..Len(held)
         /\ Magnitudes(held) \in [1..Len(held) -> Nat]
         /\ Len(Magnitudes(held)) = Len(held) /\ DOMAIN Magnitudes(held) = 1..Len(held)
         /\ \A i \in 1..Len(held) : held[i] # 0 => Magnitudes(held)[i] > 0
<1>1. PICK k \in 0..MaxExposed : held \in [1..k -> Exposures]
  BY DEF Held
<1>2. k \in Nat /\ held \in Seq(Exposures) /\ DOMAIN held = 1..k /\ Len(held) = k
  BY <1>1, ConcentrationAssumption
<1>3. \A i \in 1..k : held[i] \in Int
  BY <1>1, ConcentrationAssumption
<1>4. \A x \in Int : Magnitude(x) \in Nat /\ (x # 0 => Magnitude(x) > 0)
  BY DEF Magnitude
<1>5. Magnitudes(held) = [i \in 1..k |-> Magnitude(held[i])]
  BY <1>2 DEF Magnitudes
<1>6. Magnitudes(held) \in [1..k -> Nat] /\ DOMAIN Magnitudes(held) = 1..k
  BY <1>3, <1>4, <1>5
<1>7. Len(Magnitudes(held)) = k
  BY <1>2, <1>6
<1>8. \A i \in 1..k : held[i] # 0 => Magnitudes(held)[i] > 0
  BY <1>3, <1>4, <1>5
<1> QED
  BY <1>2, <1>6, <1>7, <1>8

\* The largest of finitely many.
LEMMA LargestIs ==
  ASSUME NEW T \in SUBSET Nat, T # {}, NEW b \in Nat, \A x \in T : x <= b
  PROVE  Max(T) \in T /\ \A x \in T : x <= Max(T)
<1> DEFINE U == {y \in Nat : b - y \in T}
<1>1. U \in SUBSET Nat /\ U # {}
  <2>1. PICK x \in T : TRUE
    OBVIOUS
  <2>2. b - x \in Nat /\ b - (b - x) = x
    BY <2>1
  <2>3. b - x \in U
    BY <2>2
  <2> QED
    BY <2>3
<1>2. PICK y \in U : \A z \in U : y <= z
  BY <1>1, LeastNat
<1>3. b - y \in T /\ y \in Nat
  OBVIOUS
<1>4. \A x \in T : b - y >= x
  <2> SUFFICES ASSUME NEW x \in T PROVE b - y >= x
    OBVIOUS
  <2>1. b - x \in Nat /\ b - (b - x) = x
    OBVIOUS
  <2>2. b - x \in U
    BY <2>1
  <2>3. y <= b - x
    BY <1>2, <2>2
  <2> QED
    BY <1>3, <2>1, <2>3
<1>5. \E x \in T : \A z \in T : x >= z
  BY <1>3, <1>4
<1>6. Max(T) \in T /\ \A z \in T : Max(T) >= z
  BY <1>5 DEF Max
<1>7. \A z \in T : Max(T) \in Nat /\ z \in Nat
  BY <1>6
<1> QED
  BY <1>6, <1>7

\* What the numbers of the block have to do with each other.
LEMMA BlockNumbers ==
  ASSUME NEW n \in Nat, NEW w \in [1..n -> Nat], NEW k \in Nat
  PROVE  LET c == Concentrated(w, k)
         IN  /\ c.total \in Nat /\ c.hhi \in Nat /\ c.max \in Nat
             /\ c.total = SumFunctionOnSet(w, 1..n)
             /\ \A i \in 1..n : w[i] <= c.total
             /\ c.total * c.total <= n * c.hhi
             /\ c.max * c.max <= c.hhi
             /\ c.hhi <= c.max * c.total
<1> DEFINE sq == [i \in 1..n |-> w[i] * w[i]]
           t == SumFunctionOnSet(w, 1..n)
           q == SumFunctionOnSet(sq, 1..n)
           T == Range(w) \cup {0}
           m == Max(T)
           c == Concentrated(w, k)
<1>1. DOMAIN w = 1..n /\ \A i \in 1..n : w[i] \in Nat
  OBVIOUS
<1>2. IsFiniteSet(1..n) /\ Cardinality(1..n) = n
  BY FS_Interval
<1>3. \A i \in 1..n : sq[i] = w[i] * w[i] /\ sq[i] \in Nat
  BY <1>1
<1>4. IntOn(w, 1..n) /\ IntOn(sq, 1..n)
  <2> HIDE DEF sq
  <2> QED
    BY <1>1, <1>3 DEF IntOn
<1>5. c.total = t /\ c.hhi = q /\ c.max = m
  BY <1>1 DEF Concentrated, SumFunction
<1> HIDE DEF sq, c
<1>6. t \in Nat /\ \A i \in 1..n : w[i] <= t
  BY <1>1, <1>2, SumOfNaturals
<1>7. q \in Nat /\ \A i \in 1..n : sq[i] <= q
  BY <1>2, <1>3, SumOfNaturals
<1>8. t * t <= n * q
  BY <1>2, <1>3, <1>4, SumOfSquares
<1>9. m \in T /\ m \in Nat /\ \A i \in 1..n : w[i] <= m
  <2>1. T \in SUBSET Nat /\ T # {} /\ \A x \in T : x <= t
    BY <1>1, <1>6 DEF Range
  <2>2. \A i \in 1..n : w[i] \in T
    BY <1>1 DEF Range
  <2> HIDE DEF T, t
  <2> QED
    BY <1>6, <2>1, <2>2, LargestIs
<1>10. m * m <= q
  <2>1. CASE m = 0
    BY <1>7, <2>1
  <2>2. CASE m # 0
    <3>1. PICK i \in 1..n : m = w[i]
      BY <1>1, <1>9, <2>2 DEF Range
    <3> QED
      BY <1>3, <1>7, <3>1
  <2> QED
    BY <2>1, <2>2
<1>11. q <= m * t
  <2> DEFINE r == [i \in 1..n |-> m * w[i]]
  <2>1. \A i \in 1..n : r[i] = m * w[i] /\ r[i] \in Int /\ sq[i] <= r[i]
    <3> SUFFICES ASSUME NEW i \in 1..n PROVE r[i] = m * w[i] /\ r[i] \in Int /\ sq[i] <= r[i]
      OBVIOUS
    <3>1. r[i] = m * w[i] /\ w[i] \in Nat /\ w[i] <= m /\ sq[i] = w[i] * w[i]
      BY <1>3, <1>9
    <3> HIDE DEF m, r
    <3>2. (m - w[i]) \in Nat /\ m * w[i] = w[i] * w[i] + (m - w[i]) * w[i]
      BY <1>9, <3>1
    <3>3. (m - w[i]) * w[i] \in Nat
      BY <3>1, <3>2
    <3> QED
      BY <1>9, <3>1, <3>2, <3>3
  <2>2. IntOn(r, 1..n)
    BY <2>1 DEF IntOn
  <2> HIDE DEF r, m
  <2>3. SumFunctionOnSet(r, 1..n) = m * SumFunctionOnSet(w, 1..n)
    <3>1. m \in Int /\ (\A i \in 1..n : r[i] = m * w[i]) /\ IsFiniteSet(1..n) /\ IntOn(w, 1..n)
      BY <1>2, <1>4, <1>9, <2>1
    <3> QED
      BY <3>1, SumTimes
  <2>4. q <= SumFunctionOnSet(r, 1..n)
    BY <1>2, <1>4, <2>1, <2>2, SumMonotone
  <2> QED
    BY <2>3, <2>4
<1> HIDE DEF t, q, m
<1>12. c.total = SumFunctionOnSet(w, 1..n)
  BY <1>5 DEF t
<1> QED
  BY <1>5, <1>6, <1>7, <1>8, <1>9, <1>10, <1>11, <1>12 DEF c

\* What one analysis answers, for the positions it was given.
LEMMA BlockIs ==
  ASSUME NEW held \in Held, NEW k \in TopNs
  PROVE  LET w == Magnitudes(held)
             c == Concentrated(w, k)
             n == Len(held)
         IN  /\ c \in [label: Labels, total: Nat, hhi: Nat, max: Nat, top: Seq(Nat)]
             /\ c.label \notin {"none", "failed"}
             /\ (\E i \in 1..n : held[i] # 0) =>
                  /\ n <= 4 => c.label = "highly_concentrated"
                  /\ n <= 6 => c.label # "diversified"
                  /\ c.label = "diversified" => 20 * c.max * c.max < 3 * c.total * c.total
                  /\ c.label = "highly_concentrated" => 4 * c.max >= c.total
             /\ Len(c.top) = Fewer(k, held)
             /\ \A I \in SUBSET (1..n) : Cardinality(I) = Len(c.top) =>
                  SumFunctionOnSet(w, I) <= SumFunction(c.top)
<1> DEFINE w == Magnitudes(held)
           c == Concentrated(w, k)
<1>0. PICK n \in Nat : n = Len(held)
  BY MagnitudesNatural
<1>1. /\ w \in [1..n -> Nat] /\ Len(w) = n /\ DOMAIN w = 1..n /\ k \in Nat
      /\ \A i \in 1..n : held[i] # 0 => w[i] > 0
  BY <1>0, MagnitudesNatural, ConcentrationAssumption
<1> HIDE DEF w
<1>2. /\ c.total \in Nat /\ c.hhi \in Nat /\ c.max \in Nat
      /\ \A i \in 1..n : w[i] <= c.total
      /\ c.total * c.total <= n * c.hhi
      /\ c.max * c.max <= c.hhi
      /\ c.hhi <= c.max * c.total
  BY <1>1, BlockNumbers
<1>3. c.label = Interpret(c.hhi, c.total, n) /\ c.top = TopHoldings(w, k)
  BY <1>1 DEF Concentrated
<1>4. /\ c.top \in Seq(Nat) /\ Len(c.top) = Fewer(k, w)
      /\ \A I \in SUBSET (1..n) : Cardinality(I) = Len(c.top) =>
           SumFunctionOnSet(w, I) <= SumFunction(c.top)
  <2> HIDE DEF c
  <2>1. /\ TopHoldings(w, k) \in Seq(Nat) /\ Len(TopHoldings(w, k)) = Fewer(k, w)
        /\ \A I \in SUBSET (1..n) : Cardinality(I) = Fewer(k, w) =>
             SumFunctionOnSet(w, I) <= SumFunction(TopHoldings(w, k))
    BY <1>1, TopHoldingsWeighMost
  <2> QED
    BY <1>3, <2>1
<1>5. Fewer(k, w) = Fewer(k, held)
  BY <1>0, <1>1 DEF Fewer
<1>6. c.label \in Labels /\ c.label \notin {"none", "failed"}
  BY <1>3 DEF Interpret, Labels
<1>7. c \in [label: Labels, total: Nat, hhi: Nat, max: Nat, top: Seq(Nat)]
  <2>1. c = [label |-> c.label, total |-> c.total, hhi |-> c.hhi, max |-> c.max, top |-> c.top]
    BY DEF Concentrated
  <2> HIDE DEF c
  <2> QED
    BY <1>2, <1>4, <1>6, <2>1
<1> DEFINE t == c.total
           q == c.hhi
           m == c.max
<1>8. ASSUME \E i \in 1..n : held[i] # 0
      PROVE  /\ n <= 4 => c.label = "highly_concentrated"
             /\ n <= 6 => c.label # "diversified"
             /\ c.label = "diversified" => 20 * m * m < 3 * t * t
             /\ c.label = "highly_concentrated" => 4 * m >= t
  <2>1. t > 0 /\ n >= 1
    <3>1. PICK i \in 1..n : held[i] # 0
      BY <1>8
    <3>2. w[i] > 0 /\ w[i] \in Nat /\ w[i] <= t
      BY <1>1, <1>2, <3>1
    <3> HIDE DEF c
    <3> QED
      BY <1>2, <3>2
  <2> HIDE DEF c
  <2>2. c.label = IF 4 * q >= t * t THEN "highly_concentrated"
                  ELSE IF 20 * q >= 3 * t * t THEN "moderately_concentrated"
                  ELSE "diversified"
    <3>1. n # 0 /\ t # 0
      BY <1>2, <2>1
    <3> QED
      BY <1>3, <3>1 DEF Interpret
  <2>3. PICK tt \in Nat : tt = t * t
    BY <1>2
  <2>4. 3 * t * t = 3 * tt
    BY <1>2, <2>3
  <2>5. t \in Nat /\ q \in Nat /\ m \in Nat /\ tt <= n * q /\ m * m <= q /\ q <= m * t
    BY <1>2, <2>3
  <2> HIDE DEF t, q, m
  <2>6. c.label = IF 4 * q >= tt THEN "highly_concentrated"
                  ELSE IF 20 * q >= 3 * tt THEN "moderately_concentrated"
                  ELSE "diversified"
    BY <2>2, <2>3, <2>4
  <2>7. n <= 4 => 4 * q >= tt
    <3> SUFFICES ASSUME n <= 4 PROVE 4 * q >= tt
      OBVIOUS
    <3>1. (4 - n) * q \in Nat /\ (4 - n) * q = 4 * q - n * q /\ n * q \in Nat
      BY <2>5
    <3> QED
      BY <2>5, <3>1
  <2>8. n <= 6 => 20 * q >= 3 * tt
    <3> SUFFICES ASSUME n <= 6 PROVE 20 * q >= 3 * tt
      OBVIOUS
    <3>1. (6 - n) * q \in Nat /\ (6 - n) * q = 6 * q - n * q /\ n * q \in Nat
      BY <2>5
    <3> QED
      BY <2>5, <3>1
  <2>9. 20 * m * m = 20 * (m * m) /\ m * m \in Nat
    BY <2>5
  <2>10. 20 * q < 3 * tt => 20 * m * m < 3 * t * t
    BY <2>4, <2>5, <2>9
  <2>11. 4 * q >= tt => 4 * m >= t
    <3> SUFFICES ASSUME 4 * q >= tt, 4 * m < t PROVE FALSE
      BY <2>5
    <3>1. t - 4 * m >= 1 /\ t - 4 * m \in Nat
      BY <2>5
    <3>2. (t - 4 * m) * t = t * t - 4 * (m * t) /\ (t - 4 * m) * t >= t
      BY <2>1, <2>5, <3>1
    <3> QED
      BY <2>1, <2>3, <2>5, <3>2
  <2>12. CASE 4 * q >= tt
    BY <2>6, <2>11, <2>12
  <2>13. CASE ~(4 * q >= tt) /\ 20 * q >= 3 * tt
    BY <2>6, <2>7, <2>13
  <2>14. CASE ~(4 * q >= tt) /\ ~(20 * q >= 3 * tt)
    BY <2>5, <2>6, <2>7, <2>8, <2>10, <2>14
  <2> QED
    BY <2>12, <2>13, <2>14
<1>9. (\E i \in 1..n : held[i] # 0) =>
                  /\ n <= 4 => c.label = "highly_concentrated"
                  /\ n <= 6 => c.label # "diversified"
                  /\ c.label = "diversified" => 20 * c.max * c.max < 3 * c.total * c.total
                  /\ c.label = "highly_concentrated" => 4 * c.max >= c.total
  BY <1>8
<1>10. Len(c.top) = Fewer(k, held)
  BY <1>4, <1>5
<1>11. \A I \in SUBSET (1..Len(held)) : Cardinality(I) = Len(c.top) =>
           SumFunctionOnSet(w, I) <= SumFunction(c.top)
  BY <1>0, <1>4
<1> HIDE DEF c
<1> QED
  BY <1>0, <1>6, <1>7, <1>9, <1>10, <1>11 DEF c, w

ConcentrationTypes ==
  /\ values \in Seq(Exposures)
  /\ top_n \in TopNs
  /\ concentration \in [label: Labels, total: Nat, hhi: Nat, max: Nat, top: Seq(Nat)]

\* One step computes the whole block, so the properties carry themselves.
ConcentrationInv ==
  /\ ConcentrationTypes
  /\ LabelNeedsPositions
  /\ LabelMatchesLargest
  /\ TopIsHeaviest

\* Nothing is computed yet.
LEMMA ConcentrationInitHolds == ConcentrationInit => ConcentrationInv
<1> SUFFICES ASSUME ConcentrationInit PROVE ConcentrationInv
  OBVIOUS
<1>1. concentration = NoConcentration /\ values = <<>> /\ top_n \in TopNs
  BY DEF ConcentrationInit
<1>2. ~Analysed
  BY <1>1 DEF NoConcentration, Analysed
<1>3. ConcentrationTypes
  BY <1>1 DEF ConcentrationTypes, NoConcentration, Labels
<1> QED
  BY <1>2, <1>3 DEF ConcentrationInv, LabelNeedsPositions, LabelMatchesLargest, TopIsHeaviest, Exposed

\* A step that leaves positions and block as they are.
LEMMA ConcentrationStands ==
  ASSUME ConcentrationInv, UNCHANGED <<values, top_n, concentration>>
  PROVE  ConcentrationInv'
BY DEF ConcentrationInv, ConcentrationTypes, LabelNeedsPositions, LabelMatchesLargest,
       TopIsHeaviest, Exposed, Analysed, Exposure

\* The analysis keeps its part.
LEMMA ConcentrationNextKeeps == ConcentrationInv /\ ConcentrationNext => ConcentrationInv'
<1> SUFFICES ASSUME ConcentrationInv, ConcentrationNext PROVE ConcentrationInv'
  OBVIOUS
<1>1. CASE Analyse
  <2>1. PICK held \in Held :
          values' = held /\ concentration' = Concentrated(Magnitudes(held), top_n)
    BY <1>1 DEF Analyse, Held, Magnitudes
  <2>2. top_n \in TopNs /\ top_n' = top_n
    BY <1>1 DEF Analyse, ConcentrationInv, ConcentrationTypes
  <2> DEFINE w == Magnitudes(held)
             c == Concentrated(w, top_n)
             n == Len(held)
  <2>3. /\ c \in [label: Labels, total: Nat, hhi: Nat, max: Nat, top: Seq(Nat)]
        /\ c.label \notin {"none", "failed"}
        /\ (\E i \in 1..n : held[i] # 0) =>
             /\ n <= 4 => c.label = "highly_concentrated"
             /\ n <= 6 => c.label # "diversified"
             /\ c.label = "diversified" => 20 * c.max * c.max < 3 * c.total * c.total
             /\ c.label = "highly_concentrated" => 4 * c.max >= c.total
        /\ Len(c.top) = Fewer(top_n, held)
        /\ \A I \in SUBSET (1..n) : Cardinality(I) = Len(c.top) =>
             SumFunctionOnSet(w, I) <= SumFunction(c.top)
    BY <2>2, BlockIs
  <2>4. held \in Seq(Exposures) /\ DOMAIN held = 1..n /\ n \in Nat /\ w \in [1..n -> Nat]
    BY MagnitudesNatural
  <2>5. c.total = SumFunctionOnSet(w, 1..n)
    <3>1. top_n \in Nat
      BY <2>2, ConcentrationAssumption
    <3> HIDE DEF w, n
    <3> QED
      BY <2>4, <3>1, BlockNumbers
  <2>6. \A I : Exposure(I)' = SumFunctionOnSet(w, I)
    BY <2>1 DEF Exposure, Magnitudes
  <2>7. concentration' = c /\ values' = held
    BY <2>1
  <2> HIDE DEF c, w
  <2>8. ConcentrationTypes'
    BY <2>2, <2>3, <2>4, <2>7 DEF ConcentrationTypes
  <2>9. Exposed' => \E i \in 1..n : held[i] # 0
    BY <2>4, <2>7 DEF Exposed
  <2>10. LabelNeedsPositions'
    BY <2>3, <2>7, <2>9 DEF LabelNeedsPositions
  <2>11. LabelMatchesLargest'
    <3>1. Exposure(DOMAIN values)' = c.total
      BY <2>4, <2>5, <2>6, <2>7
    <3> QED
      BY <2>3, <2>7, <2>9, <3>1 DEF LabelMatchesLargest
  <2>12. TopIsHeaviest'
    <3>1. kSubset(Len(c.top), 1..n) = {I \in SUBSET (1..n) : Cardinality(I) = Len(c.top)}
      BY DEF kSubset
    <3>2. \A I \in SUBSET (1..n) : SumFunctionOnSet(w, I) \in Int
      <4> SUFFICES ASSUME NEW I \in SUBSET (1..n) PROVE SumFunctionOnSet(w, I) \in Int
        OBVIOUS
      <4>1. IsFiniteSet(I)
        <5>1. IsFiniteSet(1..n)
          BY <2>4, FS_Interval
        <5> QED
          BY <5>1, FS_Subset
      <4>2. IntOn(w, I)
        BY <2>4 DEF IntOn
      <4> QED
        BY <4>1, <4>2, SumRecursion
    <3>3. SumFunction(c.top) \in Int
      <4>1. c.top \in Seq(Nat)
        BY <2>3
      <4>2. IsFiniteSet(DOMAIN c.top) /\ IntOn(c.top, DOMAIN c.top)
        <5>1. DOMAIN c.top = 1..Len(c.top) /\ Len(c.top) \in Nat
          BY <4>1
        <5>2. IsFiniteSet(DOMAIN c.top)
          BY <5>1, FS_Interval
        <5> QED
          BY <4>1, <5>1, <5>2 DEF IntOn
      <4> QED
        BY <4>2, SumRecursion DEF SumFunction
    <3>4. \A I \in kSubset(Len(c.top), 1..n) : SumFunction(c.top) >= SumFunctionOnSet(w, I)
      BY <2>3, <3>1, <3>2, <3>3
    <3> QED
      BY <2>2, <2>3, <2>4, <2>6, <2>7, <3>4 DEF TopIsHeaviest
  <2> QED
    BY <2>8, <2>10, <2>11, <2>12 DEF ConcentrationInv
<1>2. CASE AnalyseFails
  <2>1. /\ concentration = NoConcentration
        /\ concentration' = [NoConcentration EXCEPT !.label = "failed"]
        /\ UNCHANGED <<values, top_n>>
    BY <1>2 DEF AnalyseFails
  <2>2. ~Analysed'
    BY <2>1 DEF Analysed, NoConcentration
  <2>3. ConcentrationTypes'
    BY <2>1 DEF ConcentrationInv, ConcentrationTypes, NoConcentration, Labels
  <2> QED
    BY <2>2, <2>3 DEF ConcentrationInv, LabelNeedsPositions, LabelMatchesLargest, TopIsHeaviest, Exposed
<1> QED
  BY <1>1, <1>2 DEF ConcentrationNext

-----------------------------------------------------------------------------
(* The tools together *)

\* Each tool keeps its part; only the tool called moves, and the clock.
ToolsInv ==
  /\ called \in DerivedTools \cup OneRequestTools
  /\ moment \in 0..MaxMoment
  /\ CrossInv
  /\ PnlInv
  /\ ConcentrationInv
  /\ DirectInv

\* What the other tools do leaves the summary alone,
LEMMA CrossStands == CrossInv /\ UNCHANGED crossVars => CrossInv'
<1> SUFFICES ASSUME CrossInv, UNCHANGED crossVars PROVE CrossInv'
  OBVIOUS
<1>1. UNCHANGED <<crossStep, hashes, fetched, entries, rollup, grand, crossAnswer>>
  BY DEF crossVars
<1>2. ASSUME NEW i, Row(i) PROVE Row(i)'
  BY <1>1, <1>2 DEF Row
<1>3. Rows'
  BY <1>1, <1>2 DEF CrossInv, Rows
<1> QED
  BY <1>1, <1>3 DEF CrossInv, CrossTypeOK, Totals, SharesAddUp

\* the P&L analysis
LEMMA PnlStands == PnlInv /\ UNCHANGED pnlVars => PnlInv'
BY DEF pnlVars, PnlInv, PnlTypes, PnlWindowAllowed

\* and the tools of one request.
LEMMA DirectStands == DirectInv /\ UNCHANGED directVars => DirectInv'
BY DEF directVars, DirectInv, DirectTypeOK, Checked, RaisesOnlyOnFaults, WindowsAsAccepted

\* Every call begins in the invariant,
LEMMA ToolsInitHolds == Init => ToolsInv
<1> SUFFICES ASSUME Init PROVE ToolsInv
  OBVIOUS
<1>1. moment \in 0..MaxMoment
  <2>1. moment \in Cap * Day .. Cap * Day + Day - 1 /\ Cap * Day \in Nat
    BY WindowAssumption DEF Init, ClockInit
  <2> QED
    BY <2>1, WindowAssumption
<1>2. CrossInv
  BY CrossInitHolds DEF Init
<1>3. PnlInv
  BY PnlInitHolds DEF Init
<1>4. ConcentrationInv
  BY ConcentrationInitHolds DEF Init
<1>5. DirectInv
  BY DirectInitHolds DEF Init
<1> QED
  BY <1>1, <1>2, <1>3, <1>4, <1>5 DEF Init, ToolsInv

\* and every step, of its tool or of the clock, keeps it.
LEMMA ToolsNextKeeps == ToolsInv /\ [Next]_vars => ToolsInv'
<1> SUFFICES ASSUME ToolsInv, [Next]_vars PROVE ToolsInv'
  OBVIOUS
<1>0. moment \in Int
  BY DEF ToolsInv
<1>1. CASE CrossStep
  <2>1. CrossNext /\ UNCHANGED <<moment, pnlVars, concentrationVars, directVars>>
    BY <1>1 DEF CrossStep
  <2>2. CrossInv'
    BY <2>1, CrossNextKeeps DEF ToolsInv
  <2> QED
    BY <2>1, <2>2, PnlStands, ConcentrationStands, DirectStands
    DEF ToolsInv, concentrationVars, directVars
<1>2. CASE PnlStep
  <2>1. PnlNext /\ UNCHANGED <<moment, crossVars, concentrationVars, directVars>>
    BY <1>2 DEF PnlStep
  <2>2. PnlInv'
    BY <1>0, <2>1, PnlNextKeeps DEF ToolsInv
  <2> QED
    BY <2>1, <2>2, CrossStands, ConcentrationStands, DirectStands
    DEF ToolsInv, concentrationVars, directVars
<1>3. CASE ConcentrationStep
  <2>1. ConcentrationNext /\ UNCHANGED <<moment, crossVars, pnlVars, directVars>>
    BY <1>3 DEF ConcentrationStep
  <2>2. ConcentrationInv'
    BY <2>1, ConcentrationNextKeeps DEF ToolsInv
  <2> QED
    BY <2>1, <2>2, CrossStands, PnlStands, DirectStands DEF ToolsInv, directVars
<1>4. CASE DirectStep
  <2>1. called \in OneRequestTools /\ DirectNext
        /\ UNCHANGED <<moment, crossVars, pnlVars, concentrationVars>>
    BY <1>4 DEF DirectStep
  <2>2. DirectInv' /\ UNCHANGED called
    <3>1. DirectInv'
      BY <1>0, <2>1, DirectNextKeeps DEF ToolsInv
    <3>2. UNCHANGED called
      BY <2>1 DEF DirectNext, Validate, Reject, GetClient, NoClient, Request, Unreachable, Normalise
    <3> QED
      BY <3>1, <3>2
  <2> QED
    BY <2>1, <2>2, CrossStands, PnlStands, ConcentrationStands DEF ToolsInv, concentrationVars
<1>5. CASE Clock \/ UNCHANGED vars
  <2>1. UNCHANGED <<crossVars, pnlVars, concentrationVars, directVars>>
    BY <1>5 DEF Clock, vars, toolVars
  <2>2. moment' \in 0..MaxMoment
    BY <1>5, WindowAssumption DEF Clock, MomentPasses, vars, ToolsInv
  <2> QED
    BY <2>1, <2>2, CrossStands, PnlStands, ConcentrationStands, DirectStands
    DEF ToolsInv, concentrationVars, directVars
<1> QED
  BY <1>1, <1>2, <1>3, <1>4, <1>5 DEF Next

\* The invariant of all the tools.
THEOREM ToolsInvariance == Spec => []ToolsInv
BY ToolsInitHolds, ToolsNextKeeps, PTL DEF Spec

\* Whatever tool is called, the state stays in its types.
THEOREM ToolsTypeCorrect == Spec => []TypeOK
<1>1. ToolsInv => TypeOK
  BY DEF ToolsInv, CrossInv, PnlInv, PnlTypes, ConcentrationInv, ConcentrationTypes,
         DirectInv, TypeOK
<1> QED
  BY <1>1, ToolsInvariance, PTL

\* get_cross_account_summary: the roll-up by symbol, the entries by account and
\* the grand total agree on the market value after every account.
THEOREM CrossMarketValues == Spec => []MarketValueAgrees
<1>1. ToolsInv => MarketValueAgrees
  BY ViewsOfMarket DEF ToolsInv
<1> QED
  BY <1>1, ToolsInvariance, PTL

\* Its answer has every discovered account once, failed exactly when it failed.
THEOREM CrossAccountsReported == Spec => []EveryAccountReported
<1>1. ToolsInv => EveryAccountReported
  BY RowsReported DEF ToolsInv
<1> QED
  BY <1>1, ToolsInvariance, PTL

\* Its shares add up to the grand total, failed accounts included, and are all zero when
\* that is zero.
THEOREM CrossSharesAddUp == Spec => []SharesAddUp
<1>1. ToolsInv => SharesAddUp
  BY DEF ToolsInv, CrossInv
<1> QED
  BY <1>1, ToolsInvariance, PTL

\* get_pnl_analysis: its second request stays inside the boundary of get_transactions.
THEOREM PnlWindow == Spec => []PnlWindowAllowed
<1>1. ToolsInv => PnlWindowAllowed
  BY DEF ToolsInv, PnlInv
<1> QED
  BY <1>1, ToolsInvariance, PTL

\* get_concentration_analysis: four positions are always highly concentrated and
\* six never diversified.
THEOREM ConcentrationLabels == Spec => []LabelNeedsPositions
<1>1. ToolsInv => LabelNeedsPositions
  BY DEF ToolsInv, ConcentrationInv
<1> QED
  BY <1>1, ToolsInvariance, PTL

\* The label fits the largest weight.
THEOREM ConcentrationLargest == Spec => []LabelMatchesLargest
<1>1. ToolsInv => LabelMatchesLargest
  BY DEF ToolsInv, ConcentrationInv
<1> QED
  BY <1>1, ToolsInvariance, PTL

\* No other positions of that number weigh more than top_holdings.
THEOREM ConcentrationTop == Spec => []TopIsHeaviest
<1>1. ToolsInv => TopIsHeaviest
  BY DEF ToolsInv, ConcentrationInv
<1> QED
  BY <1>1, ToolsInvariance, PTL

\* The tools of one request raise only without a client or a connection, or, the
\* object tools, on a body that is no account, or, the summary, on an odd part of one.
THEOREM DirectRaises == Spec => []RaisesOnlyOnFaults
<1>1. ToolsInv => RaisesOnlyOnFaults
  BY DEF ToolsInv, DirectInv
<1> QED
  BY <1>1, ToolsInvariance, PTL

\* Their windows are no further over the cap than the wait between the check and
\* the request, and for dates less than a day, explains.
THEOREM DirectWindows == Spec => []WindowsAsAccepted
<1>1. ToolsInv => WindowsAsAccepted
  BY DEF ToolsInv, DirectInv
<1> QED
  BY <1>1, ToolsInvariance, PTL
=============================================================================
