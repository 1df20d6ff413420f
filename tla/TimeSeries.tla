------------------------------ MODULE TimeSeries ------------------------------
(***************************************************************************)
(* A series of the history table as query_history reads it back: rows are  *)
(* stamped by the server, in whole seconds, and a query returns the first  *)
(* `limit` of them by that stamp.                                          *)
(***************************************************************************)
EXTENDS Integers, Sequences

CONSTANTS
  Limits,     \* the limits callers ask for
  MaxSeries,  \* bound: rows in the series
  MaxStamp    \* bound: the stamps stop here

ASSUME SeriesAssumption ==
  /\ Limits \subseteq Nat
  /\ MaxSeries \in Nat
  /\ MaxStamp \in Nat

VARIABLES
  stamp,   \* the server's now()
  series,  \* [row number -> its ts], rows numbered as they were appended
  view     \* the last answer of query_timeseries: the limit and the row numbers

seriesVars == <<stamp, series, view>>

SeriesTypeOK ==
  /\ stamp \in Nat
  /\ series \in Seq(Nat)
  /\ view \in [limit: Nat, rows: Seq(1..MaxSeries)]

SeriesInit ==
  /\ stamp = 0
  /\ series = <<>>
  /\ view = [limit |-> 0, rows |-> <<>>]

\* append_timeseries, by any process, when the insert is stored.
AppendTimeseries ==
  /\ Len(series) < MaxSeries
  /\ series' = Append(series, stamp)
  /\ UNCHANGED <<stamp, view>>

InOrder(rows) == \A i, j \in 1..Len(rows) : i < j => series[rows[i]] <= series[rows[j]]

Lists(n) == {rows \in [1..n -> 1..Len(series)] : \A i, j \in 1..n : i # j => rows[i] # rows[j]}

Least(a, b) == IF a < b THEN a ELSE b

\* A fault: ORDER BY ts DESC, so that the newest rows are in the answer.
SelectNewest(limit) ==
  LET n == Least(limit, Len(series))
  IN {rows \in Lists(n) :
        /\ \A i, j \in 1..n : i < j => series[rows[j]] <= series[rows[i]]
        /\ \A k \in 1..Len(series) : (\A i \in 1..n : rows[i] # k) =>
             \A i \in 1..n : series[k] <= series[rows[i]]}

\* ORDER BY ts ASC LIMIT limit: rows of one second come in any order, and any
\* of them may be the ones that are cut.
Select(limit) ==
  LET n == Least(limit, Len(series))
  IN {rows \in Lists(n) :
        /\ InOrder(rows)
        /\ \A k \in 1..Len(series) : (\A i \in 1..n : rows[i] # k) =>
             \A i \in 1..n : series[rows[i]] <= series[k]}

\* query_timeseries; a failing statement answers with an error and no rows.
QueryTimeseries ==
  /\ \E limit \in Limits : \E rows \in Select(limit) :
       view' = [limit |-> limit, rows |-> rows]
  /\ UNCHANGED <<stamp, series>>

StampPasses ==
  /\ stamp < MaxStamp
  /\ stamp' = stamp + 1
  /\ UNCHANGED <<series, view>>

SeriesNext == AppendTimeseries \/ QueryTimeseries \/ StampPasses

-----------------------------------------------------------------------------

Shown(v) == {v.rows[i] : i \in 1..Len(v.rows)}

\* A row that a query has returned is returned by every later one with no
\* smaller limit, however many rows are appended in between; it can only give
\* way to another row of its own second.  (So a series longer than the limit
\* never shows its newest rows.)
ViewsGrow ==
  [][view'.limit >= view.limit =>
       \A r \in Shown(view) \ Shown(view') :
         /\ Len(view'.rows) = view'.limit
         /\ \E s \in Shown(view') \ Shown(view) : series[s] = series[r]]_seriesVars
=============================================================================
