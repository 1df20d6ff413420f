------------------------------- MODULE MCTools -------------------------------
(***************************************************************************)
(* Tools for TLC: long, short and worthless positions, whose values can    *)
(* cancel out; liquidation values that can, too; trades that bring cash in *)
(* or cost some.                                                           *)
(***************************************************************************)
EXTENDS Tools

SignedValues == {-1, 2}
SignedLiquidations == {-1, 1}
SignedQuantities == {-1, 2}
SignedWorth == {-1, 0, 3}
SignedAmounts == {-1, 2}
SignedExposures == {-1, 0, 3}
=============================================================================
