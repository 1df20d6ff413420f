-------------------------- MODULE MCHistoryWriter --------------------------
(***************************************************************************)
(* HistoryWriter for TLC: two calls share a process and one has its own.   *)
(* Two processes that write one table; and each way to have no table.      *)
(***************************************************************************)
EXTENDS HistoryWriter, TLC

CONSTANTS p1, p2, c1, c2, c3

SharedHome == (c1 :> p1) @@ (c2 :> p1) @@ (c3 :> p2)

MixedConfigs == {
  (p1 :> "clickhouse") @@ (p2 :> "clickhouse"),
  (p1 :> "clickhouse") @@ (p2 :> "memory"),
  (p1 :> "memory") @@ (p2 :> "disabled")}
=============================================================================
