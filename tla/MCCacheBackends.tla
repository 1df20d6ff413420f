--------------------------- MODULE MCCacheBackends ---------------------------
(***************************************************************************)
(* CacheBackends for TLC.  Threads, keys and the memory backend's values   *)
(* are interchangeable, and so are ClickHouse's clients and keys.  Its one *)
(* document holds a date, which comes back as text: as any value set under *)
(* the key may be what a get returns, a second has nothing to tell apart.  *)
(***************************************************************************)
EXTENDS CacheBackends, TLC

CONSTANTS dated, text

DatesBecomeText == dated :> text

\* A TTL that the clamp makes zero, and one that outlives the clock.
MixedTtls == {-1, 2}

Names == {"", "clickhouse", "clickhause"}

Symmetry == Permutations(Threads) \cup Permutations(Clients) \cup Permutations(Keys) \cup Permutations(CacheKeys) \cup Permutations(Values)
=============================================================================
