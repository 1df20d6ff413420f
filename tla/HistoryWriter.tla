--------------------------- MODULE HistoryWriter ---------------------------
(***************************************************************************)
(* How get_account_positions, get_account_summary, get_orders_history and  *)
(* get_transactions keep history: fetch, get_cache (a lazily built Cache   *)
(* per process), one write helper, and its row-by-row _append_rows to a    *)
(* backend.  Each call is a thread of control; calls of one process share  *)
(* its Cache and locks, all processes share the ClickHouse table.          *)
(***************************************************************************)
EXTENDS Naturals, Sequences

CONSTANTS
  Procs,    \* server processes
  Calls,    \* tool calls that write history
  Home,     \* [Calls -> Procs]: the process a call runs in
  Configs,  \* the mixtures of Modes that the processes' environments may have
  MaxRows,  \* bound: records in an answer of Schwab
  Free,     \* a lock nobody holds
  None      \* "has not reported"

Modes == {"disabled", "memory", "clickhouse"}

ASSUME WriterAssumption ==
  /\ Home \in [Calls -> Procs]
  /\ Configs \subseteq [Procs -> Modes]
  /\ MaxRows \in Nat
  /\ Free \notin Calls
  /\ None \notin Nat

VARIABLES
  mode,           \* [Procs -> SCHWAB_POSITIONS_CACHE_ENABLED and _CACHE_BACKEND], for good
  pc,             \* [Calls -> where the call is]
  batch,          \* [Calls -> records Schwab answered]
  persisted,      \* [Calls -> _append_rows' counter]
  answer,         \* [Calls -> _cache_status in the tool's answer]
  cache,          \* [Procs -> how often the Cache was built since the process started]
  singletonLock,  \* [Procs -> holder of _cache_singleton_lock]
  cacheLock,      \* [Procs -> holder of the Cache's own lock]
  table,          \* does the time-series table exist?
  log             \* its rows, oldest first

vars == <<mode, pc, batch, persisted, answer, cache, singletonLock, cacheLock, table, log>>

Steps == {"start", "get_cache", "build", "write", "append", "done", "lost"}
Statuses == {"none", "skipped:error", "skipped:disabled", "written"}

TypeOK ==
  /\ mode \in Configs
  /\ pc \in [Calls -> Steps]
  /\ batch \in [Calls -> 0..MaxRows]
  /\ persisted \in [Calls -> 0..MaxRows]
  /\ answer \in [Calls -> [status: Statuses, count: 0..MaxRows]]
  /\ cache \in [Procs -> Nat]
  /\ singletonLock \in [Procs -> Calls \cup {Free}]
  /\ cacheLock \in [Procs -> Calls \cup {Free}]
  /\ table \in BOOLEAN
  /\ log \in Seq([call: Calls, row: 1..MaxRows])

Init ==
  /\ mode \in Configs
  /\ pc = [c \in Calls |-> "start"]
  /\ batch = [c \in Calls |-> 0]
  /\ persisted = [c \in Calls |-> 0]
  /\ answer = [c \in Calls |-> [status |-> "none", count |-> 0]]
  /\ cache = [p \in Procs |-> 0]
  /\ singletonLock = [p \in Procs |-> Free]
  /\ cacheLock = [p \in Procs |-> Free]
  /\ table = FALSE
  /\ log = <<>>

Goto(c, step) == pc' = [pc EXCEPT ![c] = step]

\* The tool answers; it does so whatever became of the history.
Reply(c, status, count) ==
  /\ Goto(c, "done")
  /\ answer' = [answer EXCEPT ![c] = [status |-> status, count |-> count]]

\* Schwab's answer is normalised before anything is written.
Fetch(c) ==
  /\ pc[c] = "start"
  /\ \E n \in 0..MaxRows : batch' = [batch EXCEPT ![c] = n]
  /\ Goto(c, "get_cache")
  /\ UNCHANGED <<persisted, answer, cache, singletonLock, cacheLock, table, log>>

FetchFails(c) ==
  /\ pc[c] = "start"
  /\ Reply(c, "skipped:error", 0)
  /\ UNCHANGED <<batch, persisted, cache, singletonLock, cacheLock, table, log>>

\* get_cache: not enabled, no lock taken.
CacheDisabled(c) ==
  /\ pc[c] = "get_cache"
  /\ mode[Home[c]] = "disabled"
  /\ Reply(c, "skipped:disabled", 0)
  /\ UNCHANGED <<batch, persisted, cache, singletonLock, cacheLock, table, log>>

\* A fault: two calls may find no Cache and both build one.
EnterGetCacheUnlocked(c) ==
  /\ pc[c] = "get_cache"
  /\ mode[Home[c]] # "disabled"
  /\ IF cache[Home[c]] > 0
     THEN Goto(c, "write") /\ UNCHANGED singletonLock
     ELSE /\ Goto(c, "build")
          /\ singletonLock' = [singletonLock EXCEPT ![Home[c]] = c]
  /\ UNCHANGED <<batch, persisted, answer, cache, cacheLock, table, log>>

\* get_cache: the first call builds the Cache, with the lock held throughout.
EnterGetCache(c) ==
  /\ pc[c] = "get_cache"
  /\ mode[Home[c]] # "disabled"
  /\ singletonLock[Home[c]] = Free
  /\ IF cache[Home[c]] > 0
     THEN Goto(c, "write") /\ UNCHANGED singletonLock
     ELSE /\ Goto(c, "build")
          /\ singletonLock' = [singletonLock EXCEPT ![Home[c]] = c]
  /\ UNCHANGED <<batch, persisted, answer, cache, cacheLock, table, log>>

\* Cache() -> get_cache_backend(); a ClickHouse backend connects and then runs
\* its DDL, whose failure is swallowed, so the table may or may not exist after.
BuildCache(c) ==
  /\ pc[c] = "build"
  /\ IF mode[Home[c]] = "clickhouse" THEN table' \in {table, TRUE} ELSE UNCHANGED table
  /\ cache' = [cache EXCEPT ![Home[c]] = @ + 1]
  /\ singletonLock' = [singletonLock EXCEPT ![Home[c]] = Free]
  /\ Goto(c, "write")
  /\ UNCHANGED <<batch, persisted, answer, cacheLock, log>>

\* A fault: the exception leaves get_cache with the lock held.
BuildFailsLocked(c) ==
  /\ pc[c] = "build"
  /\ mode[Home[c]] = "clickhouse"
  /\ Reply(c, "skipped:disabled", 0)
  /\ UNCHANGED <<batch, persisted, cache, singletonLock, cacheLock, table, log>>

\* The extra is not installed, the URL is not set or the server not reachable:
\* get_cache returns None, as if the cache were disabled, and will try again.
BuildFails(c) ==
  /\ pc[c] = "build"
  /\ mode[Home[c]] = "clickhouse"
  /\ singletonLock' = [singletonLock EXCEPT ![Home[c]] = Free]
  /\ Reply(c, "skipped:disabled", 0)
  /\ UNCHANGED <<batch, persisted, cache, cacheLock, table, log>>

\* write_*: nothing to write, nothing locked.
WriteNothing(c) ==
  /\ pc[c] = "write"
  /\ batch[c] = 0
  /\ Reply(c, "written", 0)
  /\ UNCHANGED <<batch, persisted, cache, singletonLock, cacheLock, table, log>>

\* write_*: all rows are made before the first is appended, so a record that is
\* not an object fails the write with nothing stored.
WriteRaises(c) ==
  /\ pc[c] = "write"
  /\ batch[c] > 0
  /\ Reply(c, "skipped:error", 0)
  /\ UNCHANGED <<batch, persisted, cache, singletonLock, cacheLock, table, log>>

\* A fault: the batch does not wait for the lock.
EnterAppendUnlocked(c) ==
  /\ pc[c] = "write"
  /\ batch[c] > 0
  /\ cacheLock' = [cacheLock EXCEPT ![Home[c]] = c]
  /\ Goto(c, "append")
  /\ UNCHANGED <<batch, persisted, answer, cache, singletonLock, table, log>>

\* _append_rows takes the Cache's lock for the whole batch.
EnterAppend(c) ==
  /\ pc[c] = "write"
  /\ batch[c] > 0
  /\ cacheLock[Home[c]] = Free
  /\ cacheLock' = [cacheLock EXCEPT ![Home[c]] = c]
  /\ Goto(c, "append")
  /\ UNCHANGED <<batch, persisted, answer, cache, singletonLock, table, log>>

\* A fault: the loop runs past the last row.
CanInsertPastEnd(c) ==
  /\ pc[c] = "append"
  /\ mode[Home[c]] = "clickhouse"
  /\ table

CanInsert(c) ==
  /\ pc[c] = "append"
  /\ persisted[c] < batch[c]
  /\ mode[Home[c]] = "clickhouse"
  /\ table

Insert(c) == log' = Append(log, [call |-> c, row |-> persisted[c] + 1])

Leave(c) ==
  /\ cacheLock' = [cacheLock EXCEPT ![Home[c]] = Free]
  /\ Reply(c, "written", persisted[c])

\* append_timeseries says ok.
AppendRow(c) ==
  /\ CanInsert(c)
  /\ Insert(c)
  /\ persisted' = [persisted EXCEPT ![c] = @ + 1]
  /\ UNCHANGED <<pc, batch, answer, cache, singletonLock, cacheLock, table>>

\* A fault: a row that was not acknowledged is tried again.
AppendUnacknowledgedRetries(c) ==
  /\ CanInsert(c)
  /\ Insert(c)
  /\ UNCHANGED <<pc, batch, persisted, answer, cache, singletonLock, cacheLock, table>>

\* A fault: the error is raised out of the loop instead of ending the batch.
AppendUnacknowledgedRaises(c) ==
  /\ CanInsert(c)
  /\ Insert(c)
  /\ cacheLock' = [cacheLock EXCEPT ![Home[c]] = Free]
  /\ Reply(c, "skipped:error", 0)
  /\ UNCHANGED <<batch, persisted, cache, singletonLock, table>>

\* The row is stored but the client sees an error (the answer was lost): the
\* batch ends and the row is not counted.
AppendUnacknowledged(c) ==
  /\ CanInsert(c)
  /\ Insert(c)
  /\ Leave(c)
  /\ UNCHANGED <<batch, persisted, cache, singletonLock, table>>

\* A fault: the row is counted before its status is looked at.
AppendRefusedCounted(c) ==
  /\ pc[c] = "append"
  /\ persisted[c] < batch[c]
  /\ cacheLock' = [cacheLock EXCEPT ![Home[c]] = Free]
  /\ Reply(c, "written", persisted[c] + 1)
  /\ UNCHANGED <<batch, persisted, cache, singletonLock, table, log>>

\* No row is stored: the memory backend's degradation signal, a missing table,
\* or any error of the insert.  The batch ends.
AppendRefused(c) ==
  /\ pc[c] = "append"
  /\ persisted[c] < batch[c]
  /\ Leave(c)
  /\ UNCHANGED <<batch, persisted, cache, singletonLock, table, log>>

AppendedAll(c) ==
  /\ pc[c] = "append"
  /\ persisted[c] = batch[c]
  /\ Leave(c)
  /\ UNCHANGED <<batch, persisted, cache, singletonLock, table, log>>

Active(c) == pc[c] \notin {"start", "done", "lost"}

\* The server process dies, with its Cache, its locks and the calls it was
\* working on, and is started again.
Restart(p) ==
  /\ cache[p] > 0 \/ \E c \in Calls : Home[c] = p /\ Active(c)
  /\ pc' = [c \in Calls |-> IF Home[c] = p /\ Active(c) THEN "lost" ELSE pc[c]]
  /\ cache' = [cache EXCEPT ![p] = 0]
  /\ singletonLock' = [singletonLock EXCEPT ![p] = Free]
  /\ cacheLock' = [cacheLock EXCEPT ![p] = Free]
  /\ UNCHANGED <<batch, persisted, answer, table, log>>

WriteHistory(c) ==
  \/ CacheDisabled(c)
  \/ EnterGetCache(c)
  \/ BuildCache(c)
  \/ BuildFails(c)
  \/ WriteNothing(c)
  \/ WriteRaises(c)
  \/ EnterAppend(c)
  \/ AppendRow(c)
  \/ AppendUnacknowledged(c)
  \/ AppendRefused(c)
  \/ AppendedAll(c)

CallStep(c) == WriteHistory(c) /\ UNCHANGED mode

Next ==
  \/ \E c \in Calls : CallStep(c)
  \/ (\E c \in Calls : Fetch(c) \/ FetchFails(c)) /\ UNCHANGED mode
  \/ (\E p \in Procs : Restart(p)) /\ UNCHANGED mode

Spec == Init /\ [][Next]_vars

\* A call that has its data from Schwab goes on; nobody has to call, or to
\* restart a server.
FairSpec == Spec /\ \A c \in Calls : WF_vars(CallStep(c))

-----------------------------------------------------------------------------
(* Safety *)

Stored(c, k) == \E i \in 1..Len(log) : log[i] = [call |-> c, row |-> k]

\* "snapshot_written:n" is true of the table: the first n rows of the batch are
\* in it, and of the others at most the next, if its insert was stored without
\* the client learning so.  Holds over errors, restarts and other writers.
CountSound ==
  \A c \in Calls : answer[c].status = "written" =>
    /\ \A k \in 1..answer[c].count : Stored(c, k)
    /\ \A k \in 1..MaxRows : Stored(c, k) => k <= answer[c].count + 1

\* A call that answers that it skipped the history has stored none of it.
SkippedStoresNothing ==
  \A c \in Calls : answer[c].status \in {"skipped:error", "skipped:disabled"} =>
    \A k \in 1..MaxRows : ~Stored(c, k)

\* The rows of a batch are in the table in their order and never twice: the loop
\* stops at the first row that is not acknowledged instead of trying it again.
RowsInOrder ==
  \A i, j \in 1..Len(log) :
    (i < j /\ log[i].call = log[j].call) => log[i].row < log[j].row

\* Two batches of one process never interleave, because _append_rows holds the
\* Cache's lock and the process has one Cache.  (Those of two processes may.)
BatchesContiguous ==
  \A i, j, k \in 1..Len(log) :
    (i < j /\ j < k /\ log[i].call = log[k].call /\ Home[log[j].call] = Home[log[i].call]) =>
      log[j].call = log[i].call

\* get_cache builds at most one Cache in the life of a process.
OneCachePerProcess == \A p \in Procs : cache[p] <= 1

\* The history behaves as HistoryLog promises.
History == INSTANCE HistoryLog WITH
  reported <- [c \in Calls |-> IF answer[c].status = "none" THEN None ELSE answer[c].count]

ImplementsHistoryLog == History!Spec

-----------------------------------------------------------------------------
(* Liveness *)

\* A call that has its data ends, answered or lost with its process: no failure
\* of the backend leaves a lock held or a call waiting.
CallsEnd == \A c \in Calls : Active(c) ~> ~Active(c)
=============================================================================
