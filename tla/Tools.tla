-------------------------------- MODULE Tools --------------------------------
(***************************************************************************)
(* server.py: a call of one of the tools that ask Schwab.  A server works  *)
(* on one call at a time and the tools keep nothing between calls but what *)
(* is in ClientSession and HistoryWriter, so one call is the whole         *)
(* behaviour; only the tool called takes steps, and the clock.             *)
(***************************************************************************)
EXTENDS CrossAccount, PnlAnalysis, Concentration, DirectTools

toolVars == <<crossVars, pnlVars, concentrationVars, directVars>>
vars == <<moment, toolVars>>

DerivedTools ==
  {"get_cross_account_summary", "get_pnl_analysis", "get_concentration_analysis"}

Labels == {"none", "failed", "empty", "diversified", "moderately_concentrated",
           "highly_concentrated"}

TypeOK ==
  /\ called \in DerivedTools \cup OneRequestTools
  /\ moment \in 0..MaxMoment
  /\ CrossTypeOK
  /\ lookback \in Nat
  /\ unrealized \in Int
  /\ realized \in [available: BOOLEAN, amount: Nat]
  /\ pnlWindow \in Window
  /\ values \in Seq(Exposures)
  /\ top_n \in TopNs
  /\ concentration \in [label: Labels, total: Nat, hhi: Nat, max: Nat, top: Seq(Nat)]
  /\ DirectTypeOK

Init ==
  /\ called \in DerivedTools \cup OneRequestTools
  /\ ClockInit
  /\ CrossInit
  /\ PnlInit
  /\ ConcentrationInit
  /\ DirectInit

CrossStep ==
  /\ called = "get_cross_account_summary"
  /\ CrossNext
  /\ UNCHANGED <<moment, pnlVars, concentrationVars, directVars>>

PnlStep ==
  /\ called = "get_pnl_analysis"
  /\ PnlNext
  /\ UNCHANGED <<moment, crossVars, concentrationVars, directVars>>

ConcentrationStep ==
  /\ called = "get_concentration_analysis"
  /\ ConcentrationNext
  /\ UNCHANGED <<moment, crossVars, pnlVars, directVars>>

DirectStep ==
  /\ called \in OneRequestTools
  /\ DirectNext
  /\ UNCHANGED <<moment, crossVars, pnlVars, concentrationVars>>

\* The clock matters to two kinds of call.
Clock ==
  /\ called \in {"get_pnl_analysis"} \cup OneRequestTools
  /\ MomentPasses
  /\ UNCHANGED toolVars

Next == CrossStep \/ PnlStep \/ ConcentrationStep \/ DirectStep \/ Clock

Spec == Init /\ [][Next]_vars
=============================================================================
