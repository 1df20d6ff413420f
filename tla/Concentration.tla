---------------------------- MODULE Concentration ----------------------------
(***************************************************************************)
(* get_concentration_analysis: how concentrated one account is.  A         *)
(* quotient of the code is kept as its numerator over the total value (the *)
(* HHI over the square of it), so that the arithmetic is exact; the code's *)
(* is in floating point.  The asset-type breakdown is left out.            *)
(***************************************************************************)
EXTENDS Integers, Sequences, FiniteSetsExt

CONSTANTS
  Exposures,   \* market values of positions; a missing or junk one counts as 0
  MaxExposed,  \* bound: positions in the account
  TopNs        \* the top_n asked for

ASSUME ConcentrationAssumption ==
  /\ Exposures \subseteq Int
  /\ MaxExposed \in Nat
  /\ TopNs \subseteq 1..50

VARIABLES
  values,        \* the market values Schwab answers
  top_n,
  concentration  \* the concentration block, NoConcentration before it is computed

concentrationVars == <<values, top_n, concentration>>

NoConcentration == [label |-> "none", total |-> 0, hhi |-> 0, max |-> 0, top |-> <<>>]

\* A fault: a short position takes away from the exposure.
MagnitudeSigned(v) == v

Magnitude(v) == IF v < 0 THEN -v ELSE v

Fewer(n, held) == IF n < Len(held) THEN n ELSE Len(held)

\* A fault: the smallest first.
AheadAscending(held, i) ==
  {j \in DOMAIN held : held[j] < held[i] \/ (held[j] = held[i] /\ j < i)}

\* Sorting in descending order is stable: ahead of a holding come the larger
\* ones, and those as large that were ahead of it.
Ahead(held, i) ==
  {j \in DOMAIN held : held[j] > held[i] \/ (held[j] = held[i] /\ j < i)}

\* sorted(holdings, reverse=True)[:top_n]
TopHoldings(held, n) ==
  [r \in 1..Fewer(n, held) |->
     held[CHOOSE i \in DOMAIN held : Cardinality(Ahead(held, i)) = r - 1]]

\* A fault: the lower bound of each band is not part of it.
InterpretStrict(hhi, total, count) ==
  IF count = 0 THEN "empty"
  ELSE IF total # 0 /\ 4 * hhi > total * total THEN "highly_concentrated"
  ELSE IF total # 0 /\ 20 * hhi > 3 * total * total THEN "moderately_concentrated"
  ELSE "diversified"

\* _interpret_hhi: the bands begin at 0.25 and at 0.15; with a total of 0 all
\* weights, and the HHI, are 0.
Interpret(hhi, total, count) ==
  IF count = 0 THEN "empty"
  ELSE IF total # 0 /\ 4 * hhi >= total * total THEN "highly_concentrated"
  ELSE IF total # 0 /\ 20 * hhi >= 3 * total * total THEN "moderately_concentrated"
  ELSE "diversified"

Concentrated(held, n) ==
  LET total == SumFunction(held)
      hhi   == SumFunction([i \in DOMAIN held |-> held[i] * held[i]])
  IN  [label |-> Interpret(hhi, total, Len(held)), total |-> total, hhi |-> hhi,
       max |-> Max(Range(held) \cup {0}), top |-> TopHoldings(held, n)]

ConcentrationInit ==
  /\ values = <<>>
  /\ top_n \in TopNs
  /\ concentration = NoConcentration

\* One request, then arithmetic.
Analyse ==
  /\ concentration = NoConcentration
  /\ \E held \in UNION {[1..n -> Exposures] : n \in 0..MaxExposed} :
       /\ values' = held
       /\ concentration' = Concentrated([i \in DOMAIN held |-> Magnitude(held[i])], top_n)
  /\ UNCHANGED top_n

\* An HTTP error is answered as it is, anything else raises: nothing is computed.
AnalyseFails ==
  /\ concentration = NoConcentration
  /\ concentration' = [NoConcentration EXCEPT !.label = "failed"]
  /\ UNCHANGED <<values, top_n>>

ConcentrationNext == Analyse \/ AnalyseFails

-----------------------------------------------------------------------------

Analysed == concentration.label \notin {"none", "failed"}

\* The exposure, from the positions themselves: shorts count like longs.
Exposure(I) == SumFunctionOnSet([i \in DOMAIN values |-> Magnitude(values[i])], I)
Exposed == Analysed /\ \E i \in DOMAIN values : values[i] # 0

\* "With n equal-weighted positions HHI is 1/n": the label can only get better
\* with more positions.  Four cannot be less than highly concentrated, whatever
\* their values, and six cannot be diversified; the bounds are met exactly.
\* This is so in exact arithmetic: the floats of the code may fall just short.
LabelNeedsPositions ==
  Exposed =>
    /\ Len(values) <= 4 => concentration.label = "highly_concentrated"
    /\ Len(values) <= 6 => concentration.label # "diversified"

\* The label and the largest weight tell one story: no position of a diversified
\* account exceeds the square root of 0.15, and a highly concentrated one has a
\* position of at least 0.25.
LabelMatchesLargest ==
  Exposed =>
    LET all == Exposure(DOMAIN values)
    IN  /\ concentration.label = "diversified" =>
             20 * concentration.max * concentration.max < 3 * all * all
        /\ concentration.label = "highly_concentrated" => 4 * concentration.max >= all

\* No other choice of as many positions weighs more than top_holdings, and all of
\* the account is shown when it has no more than top_n positions.
TopIsHeaviest ==
  Analysed =>
    /\ Len(concentration.top) = Fewer(top_n, values)
    /\ \A I \in kSubset(Len(concentration.top), DOMAIN values) :
         SumFunction(concentration.top) >= Exposure(I)
=============================================================================
