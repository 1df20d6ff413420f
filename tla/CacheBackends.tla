---------------------------- MODULE CacheBackends ----------------------------
(***************************************************************************)
(* get_cache_backend: a process gets the memory backend, or ClickHouse's.  *)
(* The response cache and the history series of ClickHouse are tables of   *)
(* their own, so a behaviour exercises one of the three.                   *)
(***************************************************************************)
EXTENDS MemoryBackend, ClickHouseCache, TimeSeries

CONSTANT BackendNames  \* the values of SCHWAB_POSITIONS_CACHE_BACKEND, unset included

VARIABLE backend  \* what is exercised

backendVars == <<backend, vars, responseVars, seriesVars>>

BackendTypeOK ==
  /\ backend \in {"memory", "clickhouse_cache", "clickhouse_series"}
  /\ TypeOK
  /\ ResponseTypeOK
  /\ SeriesTypeOK

\* get_cache_backend: any name but clickhouse, misspelt ones too, means memory.
Chosen(name) ==
  IF name = "clickhouse" THEN {"clickhouse_cache", "clickhouse_series"} ELSE {"memory"}

BackendInit ==
  /\ backend \in UNION {Chosen(name) : name \in BackendNames}
  /\ Init
  /\ ResponseInit
  /\ SeriesInit

MemoryStep ==
  /\ backend = "memory"
  /\ Next
  /\ UNCHANGED <<backend, responseVars, seriesVars>>

ResponseStep ==
  /\ backend = "clickhouse_cache"
  /\ ResponseNext
  /\ UNCHANGED <<backend, vars, seriesVars>>

SeriesStep ==
  /\ backend = "clickhouse_series"
  /\ SeriesNext
  /\ UNCHANGED <<backend, vars, responseVars>>

BackendNext == MemoryStep \/ ResponseStep \/ SeriesStep

BackendSpec == BackendInit /\ [][BackendNext]_backendVars

-----------------------------------------------------------------------------

\* To the callers the dict is a set of entries, which come back as they were set and
\* not a moment after their TTL.
MemoryProtocol == INSTANCE CacheProtocol WITH
  Callers <- Threads,
  Read <- [v \in Values |-> v],
  Grace <- 0,
  time <- clock,
  pending <- op,
  offered <- ToSet(store)

\* A caller that only relies on CacheProtocol may be given either backend: whatever
\* other callers set, evict or clear while its get is under way, and however late a set
\* lands, a hit was set under that key by some call, comes back the way the backend reads
\* values back, and was within its TTL when the get began; a set with a TTL of zero or
\* less offers nothing beyond the moment, or in ClickHouse the second, that it counts from.
ImplementsCacheProtocol == MemoryProtocol!Spec /\ ResponseProtocol!Spec
=============================================================================
