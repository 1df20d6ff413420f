# schwab-positions-mcp in TLA+

A verification project for the read-only Schwab positions MCP server: models of
the parts whose correctness depends on order, failure or arithmetic, TLC
configurations that check them on small instances, and TLAPS proofs, for every
value of the constants, of every safety property that those runs check: what
readers of the token file may conclude from it, what its writers leave behind,
that the history is what the tools say of it, what the caches return, and what
the numbers and windows of the tools mean.

Source paths below are relative to `src/schwab_positions_mcp/`.

## The system

Three kinds of programs run on one machine and talk to Schwab:

- **server processes** (`server.py`), one per MCP host, which answer tool calls;
- the **auth CLI** (`auth.py`), which a person runs to log in;
- the **health probe** (`health.py`), which cron or launchd runs on a schedule.

They share one file, `token.json`. With the optional history cache, servers also
share a ClickHouse table.

| component | state it keeps | operations | modelled in |
|---|---|---|---|
| Token file | the refresh-token grant, mtime, mode | installed by a login, rewritten by a refresh, removed, chmodded | `TokenStore` |
| Auth CLI | a temporary file | `login_flow`, `manual_flow` | `TokenFile`, as one step `TokenStore` (`LoginFlow`) |
| Health probe | the Desktop marker | `run` | `HealthProbe` |
| Client session (`tools/_common.py`) | the client singleton of the process | `get_client`, `normalise_response` | `ClientSession` |
| Meta tools | - | `health_check` | `HealthCheck` |
| History facade (`cache.py`) | the Cache singleton, two locks | `get_cache`, `write_*`, `_append_rows`, `query_history` | `HistoryWriter`, `TimeSeries` |
| ClickHouse backend (`cache_backend.py`) | its two tables | connect, schema, `append_timeseries`; `get`, `set`, `clear`; `query_timeseries` | `HistoryWriter`, `ClickHouseCache`, `TimeSeries` |
| Memory backend (`cache_backend.py`) | an LRU dict with expiry | `get`, `set`, `clear` | `MemoryBackend` |
| History tools (`positions`, `summary`, `orders`, `transactions`) | - | check, fetch, write, answer | `HistoryWriter` (the write), `DirectTools` (the rest) |
| List and detail tools, read-only client | - | one request and the shape of its response | `DirectTools` |
| Input models | - | the look-back windows | `InputWindows` |
| Cross-account summary | - | discover, fetch each, merge | `CrossAccount` |
| P&L analysis | - | two requests, totals, a window | `PnlAnalysis` |
| Concentration analysis | - | one request, HHI | `Concentration` |
| Registration | - | the tools there are | `Tools`, partly |
| Bootstrap, most platform shims | - | - | not modelled |

How they interact:

- A **login** writes `token.tmp` and puts it in place of `token.json` with one
  `os.replace`; two logins write the same `token.tmp`. A **server** reads it
  once, on its first call, and keeps the client; when its access token runs out
  schwab-py refreshes it and rewrites the file *in place* with the grant the
  client holds. The **probe** looks at the file five times in one run: does it
  exist, does it still, what is its mode, is it JSON, how old is the grant; and once
  more for a hint or in the fall-back. The `health_check` tool looks twice: does it
  exist, and what is its mtime.
- FastMCP runs the synchronous tool functions on its event loop, so one server
  works on one call at a time. Servers, auth CLI and probe really are
  concurrent. Within a process the code takes locks as if calls were threads,
  and its tests call it from threads; `HistoryWriter` and `MemoryBackend` check
  that promise.
- A history tool fetches, asks `get_cache` for the process's Cache (built on
  first use under a lock), makes the rows and appends them one by one under the
  Cache's lock. A failure of any of these must never fail the tool.

What makes each correct, and hard to test:

- *Token file*: concurrent writers, one of which (schwab-py) rewrites in place
  and may be stopped half-way; an mtime that refreshes keep moving; logins that
  fail, are killed or overlap between writing, chmod and replace.
- *Health probe*: what its exit code is worth when the file changes between two
  looks, and whether it alarms in time and at all.
- *Client session*: a singleton that outlives the file it was made from.
- *History*: errors in the middle of a batch, answers that get lost, restarts,
  two processes writing one table; the count in the answer must stay true.
- *Memory backend*: a clock read before a lock is taken, a size limit, expiry.
- *ClickHouse backend*: rows that are only ever added, stamped to the second,
  statements that fail unseen; two backends behind one protocol.
- *Tools*: windows checked at one moment and used at another, responses of any
  shape, a method that the allow list may lack.
- *Analytics*: errors of some of several requests; totals, bands, zero and
  negative values at their boundaries.

`PROJECT.json` lists these hazards at their lines, with the properties on them.

## The modules

```
TokenStore <-- HealthProbe ------------------+
     ^    \                                  +-- TokenLifecycle <-- TokenLifecycleProofs
     |     +-- ClientSession <-- HealthCheck +        ^-- MCTokenLifecycle
     +-- implemented by -- TokenFile <-- TokenFileProofs
                                ^-- MCTokenFile
HistoryLog    <= implemented by = HistoryWriter <-- HistoryWriterProofs
                                       ^-- MCHistoryWriter
ResponseCache <= implemented by = MemoryBackend -----+
CacheProtocol <= implemented by = both caches        +-- CacheBackends <-- MCCacheBackends
                                  ClickHouseCache ---+        |
                                  TimeSeries --------+        v
                 MemoryBackendProofs, ClickHouseProofs --> CacheBackendsProofs
InputWindows <-- PnlAnalysis, DirectTools --+
                 CrossAccount, Concentration +-- Tools <-- MCTools
                                                   ^
                 SumFacts ---------------> ToolsProofs
```

**TokenStore** has the clock, the file at each path, and the history of issued
grants. A file is its grant's creation time, its mtime, whether its mode is 0600
and whether it is JSON. Time is counted in units. 12 hours tell the code's thresholds apart (then `Lifetime` is
14, `Warn` 2, `Critical` 1), and any finer unit can be taken: any number of steps fall
within one, and time may pass between any two steps but a granted refresh and its
write. `LoginFlow` is the whole login; the chmod of the temporary
file is best-effort in the code, so the mode is any. `WriteInPlace` is schwab-py's.

**TokenFile** is the login step by step: `Start` (the configuration, the dry run),
`Open` (Schwab mints the grant, `write_text` truncates or creates `token.tmp`),
`Write` or `WriteFails`, `Chmod`, `Replace` or `ReplaceFails`, and `Kill` anywhere.
Files are inodes, named by the login that created them, and `tmp` and `token` are
the names that point to them: a login writes to the file it has opened, but
chmods and renames whatever the name means by then. `Store` is `TokenStore` over
what a reader of `token.json` sees, and a step is `LoginFlow` or changes nothing
there as long as no two logins have been writing at once.

**HealthProbe** is `health.run`, one action per look at the file: `CheckExists`,
`CheckPerms` and `StatPerms` (the two looks of `is_secure_perms`, of which only the
first survives that the file is gone), `ReportMode` (the mode once more, for the hint,
outside any `try` too), `ParseJson`, `ProbeTokenAge` (or `ProbeTokenAgeFails`), `ProbeMtime`. `report` is
the exit code and the path it came by; its field `left` is a history variable,
what the grant really had left.

**ClientSession** is `get_client` and one request per server. `UseSingleton`,
`BuildClient` and `LoadToken` are the lazy construction; `Respond`,
`RespondExpired` and `RefreshGranted` are Schwab's possible answers;
`WriteRefreshed` is the rewrite; `Restart` and `RestartTearsFile` are the MCP
host's. `reset_client_singleton` is a hook of the tests and left out.

**HealthCheck** is the `health_check` tool as two looks at the file, `LookForToken`
and `StatToken`, by a path of its own (the override is used with its `~` unexpanded).
Its answer keeps, as a history variable, what the grant in the file really had left.
The code rounds the age, and the days to expiry again, to a thousandth of a day:
`Grain` is that thousandth in units of time, and `Rounded` the multiples of it that are
nearest (two of them half-way, as the floating-point quotient may fall either way). A
lifetime of 7 days is a multiple of it, so the second rounding changes nothing.

**TokenLifecycle** puts them together with `Tick`. `Tick` cannot pass the
schedule (`MaxGap` units without a finished probe) nor separate Schwab's answer
to a refresh from the write of the file, which take milliseconds.

**HistoryWriter** models a call as `start -> get_cache -> build -> write ->
append -> done`. Each row is an action, and may be stored and acknowledged, stored
without the client learning so, or refused. `Restart` loses a process's calls,
its locks and its Cache, but not the table. `mode` is each process's configuration,
any of those in `Configs`. **HistoryLog** is what callers can
rely on: rows of a batch in order, each at most once, no gap, and a reported
count that is right or one short.

**MemoryBackend** splits `get` and `set` where the code does: the clock is read
before the lock is taken. The ordered dict is a sequence of entries, least recently
used first; that no key is in it twice (`OneEach`, part of `TypeOK`) is what a dict
is and no property of the code. `since` and `latest` are history variables. **ResponseCache**
is the protocol's promise: a hit is the value last set under the key, and an
entry may vanish at any time but does not come back by itself.

**ClickHouseCache** is the response cache of the other backend: a table of rows to
which `InsertResponse` adds, which `Truncate` empties, and of which `GetResponse`
picks the youngest that lives. Each client has a call between `RequestGet` or
`RequestSet` and its statement's arrival at the server, whose clock may go on and whose
table others may change in between; a set that fails has stored its row or not by the
time it returns. `Json` is what a document is after `json.dumps(.., default=str)` and
`json.loads`, which need not be what was set. **TimeSeries** is one series of the history table
with its stamps in whole seconds, and `query_timeseries` with its limit.
**CacheProtocol** is what a caller may rely on who does not know its backend. A call is
pending from the moment it began to the moment it ends. When a set ends it offers at
most one entry: its own key, what its own value is read back as (`Read`: the identity
for the memory backend, `Json` for ClickHouse), and an expiry its own TTL after some
moment of the call. A get returns nothing or an entry offered under its key that had not
expired when the get began, give or take `Grace`: 0 for the memory backend, and for
ClickHouse, whose rows live to the end of the last second, 1. Entries may be lost at
any time. So a value that nobody set under the key is never returned, nor one whose TTL
is over; which of several sets a get finds is left open, and where the backends differ
`ResponseCache` and `HitsGoBackOnlyPastExpiry` say more. **CacheCalls** has the calls,
for both. **CacheBackends** picks one of the three and shows that both caches implement
the protocol.

**InputWindows** has the clock and the validators of `models.py`; all times are UTC,
in units of which a day has `Day`. **DirectTools** is a call of one of the nine
tools that make one request: `Validate` or `Reject`, `GetClient`, `Request` through
the allow list, and `Normalise`, which gives each kind of body the outcome that the
tool's reshaping has. A list tool takes anything but a list for no rows; a detail tool
hands the body on. An object tool raises on what is no account (`Unreadable`): text or a
list for a body, or an object whose `securitiesAccount` is no object or whose positions
are a number. The summary raises on an odd part of an account too, say an entry of the
positions that is null, where the positions tool hands it on.

**CrossAccount**, **PnlAnalysis** and **Concentration** are the three derived
tools, and **Tools** is a call of any of the twelve: the tools keep nothing between
calls but the client and the Cache, and a server works on one call at a time. Amounts are integers and
quotients are kept as numerators, so arithmetic is exact where the code's is
floating point. A bound that is met exactly here may be missed there: four positions
of 1.0, 1.0, 1.0 and a little less than 1.0 have an HHI of at least 0.25, and the sum of
the rounded squares comes out just below, so their label is `moderately_concentrated`.
In **PnlAnalysis** the market value of a position is a field of its own, as Schwab sends
it, and not quantity times price.

In **Concentration** a stable sort in descending order is told by ranks: a holding
is at place r of `top_holdings` when r - 1 holdings are `Ahead` of it. In
**CrossAccount** `rollup` has every symbol, with a count of 0 for one that is not
in the answer.

An operator whose comment begins with "A fault" is no part of a
specification: it is a plausible bug in the definition after it, and
`PROJECT.json` names the property that notices when the one replaces the other.

## What the runs show

`tlc -config <cfg> <module>`; a run is named after its cfg in `PROJECT.json`.

| cfg | instance | shows |
|---|---|---|
| `MCTokenProbe` | 1 server, 1 path, lifetime 3, warn 2, critical 1, logins in units 0 and 1, 6 units | what a healthy exit and an alarm are worth under every interleaving |
| `MCTokenSessions` | 2 servers, one of which calls `health_check`, lifetime 3, ages rounded to multiples of 3 units, logins in 3 units, 5 units, no probe | mtimes stay within the life of their grant; only live grants come back; `health_check` is off by no more than a lifetime and half a grain |
| `MCTokenSchedule` | probe at every unit on both its paths, all logins in unit 0 | the primary path warns in time; the mtime path alarms in the end; every call ends |
| `MCTokenFile` | 3 logins, 2 units | what `token.json` holds after any mixture of failures, kills and overlaps; `LoginFlow` is implemented |
| `MCHistory` | 3 calls in 2 processes with ClickHouse, up to 2 rows each, or with ClickHouse in one and memory or no cache in the other | counts, order and contiguity of the table; `HistoryLog` is implemented; a skipped history stored nothing; no failure leaves a lock held |
| `MCCacheBackends` | memory: 2 threads, 3 keys, 2 values, room for 2, TTLs -1 and 2; ClickHouse: 2 clients, 2 keys and 2 response rows in 3 seconds, a document that JSON changes; 4 history rows, limits 0, 2 and 3 | limit, LRU order; `ResponseCache` and `CacheProtocol` are implemented; which rows gets and queries pick |
| `MCTools` | up to 2 accounts of 2 positions and 2 symbols; 2 positions and 2 trades; 7 positions; a day of 3 moments, a cap of 2 days | totals, roll-up, entries and shares fit; label, largest weight and top holdings agree; windows; what may raise |

The bounds: a lifetime of three units with thresholds at two and one is the
smallest with a healthy, a warning and a critical span, and two logins are enough
for a file to go back to an older grant. Two servers are enough for one to undo
the other's write. `MaxClock` leaves room for a whole lifetime after the last
login. Three calls are two that share a process's locks and one that does not;
two rows give a batch a middle to fail in. Three logins are two that overlap and
one before or after them. Two response rows are two ages of one key, or two keys, and
two clients are one whose call waits while the other's lands. A grain of three units has
ages below, above and on a multiple. A day of three moments has a first, a last and one
between, and the clock passes one midnight in the middle of a call. Seven positions are the fewest whose
HHI can fall below 0.15. `MaxClock`, `LastLogin`, `MaxRows`, `MaxHeld`, `MaxPriced`,
`MaxTrades`, `MaxExposed`, `MaxResponses`, `MaxSeconds`, `MaxSeries`, `MaxStamp`,
`MaxMoment` and `Checkers` are the only bounds that do not come from the program.

Where the run says `CHECK_DEADLOCK FALSE`, calls are made once and the system
rests when they have ended.

### Where the code does something else than the repository says

Each of these runs has one property, a sentence of a document, comment or test,
and ends in a counterexample:

| cfg | sentence | what the code does |
|---|---|---|
| `MCTokenStaleClient` | REGISTER.md: re-run `login_flow` on `refresh_token_expired` | a running server keeps its old client |
| `MCTokenOverwritten` | REGISTER.md 4.1: warned before the token dies | an older server's refresh overwrites the new login, even for a probe with credentials |
| `MCTokenPathOverride` | .env.example: the override of the storage path | the auth CLI ignores it |
| `MCTokenProbeRaises` | health.py: side effects never raise; codes are a contract | `file_mode` of a vanished file raises: status 1, no marker |
| `MCToolsCounts` | a test: `account_count` counts accounts | it counts positions |

The models show more of the kind, on which no run is spent:

- the mtime fall-back calls a token healthy that is dead, because a refresh
  renewed the mtime: `HealthyMeansLife` says for how long it can;
- a healthy probe leaves the Desktop marker of an earlier alarm, whose text says
  that it is regenerated (`Finish`);
- an insert that fails leaves the rows before it stored and counted, where
  `_append_rows` says "storage errors ... -> 0"; `CountSound` says what the count
  does mean;
- `MemoryBackend.get` reads the clock before it waits for the lock, so a hit may
  have expired by the time it is returned (`StartGet`, `GetHit`);
- a transport error of one account, or of the transactions, raises out of the
  derived tools, whose docstrings promise partial answers for fetch errors
  (`FetchRaises`, `TransactionsRaise`);
- the cash of a sale that opens a short counts as realized (`FetchTransactions`);
- the cost basis of a short is positive and its market value negative, so that
  `market_value - cost_basis` makes each short too low by twice its cost, and a short
  that has gained a loss (`CostBasis`; tests/test_analytics.py:187 pins it); and the
  cost of an option lacks the 100 shares of its contract, which its market value has;
- a login prints OK when another login's file is what it has installed: two of
  them share `token.tmp` (`Replace`), and with three the installed file can be one
  that nobody has chmodded; `SoleLoginInstalls` says what one login can rely on;
- `health_check` says "ready" of a dead token, or of a file that went away between
  its two looks (`StatToken`), and its days to expiry go up with every refresh:
  `HealthCheckEstimate` says by how much they are off;
- with ClickHouse a TTL of 0 lives for the rest of its second, which of two sets
  in one second a get returns is arbitrary, and an older value comes back when a
  younger one with a shorter TTL runs out (`Fresh`, `Selected`); the memory backend
  does none of that. `size` counts the rows, where the protocol says live entries,
  and rows that have expired are never removed;
- a history series longer than the limit of the query never shows its newest rows
  (`ViewsGrow`);
- a 2xx response that is not a list is an empty list with `ok: true` to the list
  tools (`Shaped`), and one that is no account raises out of the object tools, as do
  odd parts of one out of the summary (`Unreadable`): with odd balances it does so after
  it has stored its snapshot in the history cache;
- an orders window may end before it begins (`OrdersAccepted`), and a window may
  reach further back than the cap by the time the call has waited
  (`WindowsAsAccepted`); the allow list has a `get_account_orders` no tool calls;
- a single worthless position has HHI 0 and the label "diversified", where the
  docstring says 1.0 (`Interpret`).

### Fairness

`TokenLifecycle!FairSpec` assumes that time passes (strongly, because `Tick`
waits while a write is on its way; that guard says that writes are short, not
that they can hold time up), that the scheduler runs the probe to its end
(`docs/cron.example`), and that a server works off a call it has begun. Nothing
is assumed of the user, of the MCP host, or of which answer Schwab gives.
`HistoryWriter!FairSpec` assumes that a call which has its data goes on; a lock
is waited for under weak fairness only, which suffices because its holder always
leaves it and the calls are finitely many.

## What is proved

`TokenLifecycleProofs`, for every number of servers and paths, every lifetime,
every pair of thresholds, every schedule and every bound on time, from the named
assumptions on the constants alone:

| theorem | property |
|---|---|
| `TypeCorrect` | `TypeOK` |
| `MtimeCorrect` | `MtimeWithinLife`: `created <= mtime <= clock`, `mtime < created + Lifetime` |
| `IssuedCorrect` | `OnlyIssuedGrants` |
| `HealthyCorrect` | `HealthyMeansLife` |
| `AlarmCorrect` | `NoFalseAlarm` |
| `ReturnCorrect` | `OnlyLiveGrantsReturn` |
| `EstimateCorrect` | `HealthCheckEstimate`: what `health_check`'s days to expiry say of the grant's life, for any `Grain` of rounding |
| `WarnedCorrect` | `WarnedOnPrimaryPath`, when all logins fall in one unit and `MaxGap < Warn` |

None of these is inductive alone. The mtime of a file lies within its grant's
life because the server that wrote it held a client whose grant was alive when
Schwab granted the refresh, and no time passed until the write. So the inductive
invariant `IInv` adds `CallHasClient` (a call past the load has a client, and one
about to write a live one) and `GrantsPast` (no grant is from the future).
What the probe reports rests on `MtimeWithinLife` of the file at the moment its
age is read: the earlier looks of the same run do not matter, which is why the
interleavings do not hurt. From `mtime < created + Lifetime` it follows that the
fall-back can call a token healthy for less than `Lifetime - Warn` after its
death, and that it never gives a false alarm. `WarnedCorrect` adds `Scheduled`:
the last report is at most `MaxGap` old and, if healthy, was made at least `Warn`
before the only grant's end. The assumption of one login is needed:
`MCTokenOverwritten` is the counterexample with two.

The proofs do not use `Tick`'s bound `MaxClock`; they do use that a refresh's
write falls in the unit of its grant.

`TokenFileProofs`, for any number of logins that fail, are killed or overlap at
any step:

| theorem | property |
|---|---|
| `TypeCorrect` | `TypeOK` |
| `SoleCorrect` | `SoleLoginInstalls`: a login that was alone has installed its own grant, whole, chmodded if its chmod worked |
| `TornCorrect` | `TornNeedsOverlap`: `token.json` holds half a file only after two logins have been writing at once |
| `FlowCorrect` | `ImplementsLoginFlow`: without such an overlap every step is `TokenStore`'s `LoginFlow` or none |

The difficulty is that a login writes to an inode but renames a name. The
inductive invariant says when the two agree: `SoleWriter` (for a login that is
alone, `token.tmp` is the file it has open, with what it has written so far),
`OverlapSeen` (of two that are writing neither counts as alone) and `Unborn` (a
login that has opened nothing left no trace, so that its new file is new).
`TwoNames` and `LastRename` keep a late writer away from an installed file: the
names never point to one inode, and what a login that was alone has installed
nobody else has open. `WritesNow` is the assumption that a login's writing takes no
unit of time. `FlowCorrect` then has two lemmas: only the rename shows in
`token.json` (`OnlyRenameShows`), and what it shows is a login (`RenameIsLogin`).

`HistoryWriterProofs`, for any number of processes and calls, batches of any size
and any mixture of configurations:

| theorem | property |
|---|---|
| `TypeCorrect` | `TypeOK` |
| `CountCorrect` | `CountSound`: `snapshot_written:n` is true of the table, or one row short |
| `SkippedCorrect` | `SkippedStoresNothing` |
| `OrderCorrect` | `RowsInOrder` |
| `ContiguousCorrect` | `BatchesContiguous` |
| `OneCacheCorrect` | `OneCachePerProcess` |
| `LogCorrect` | `ImplementsHistoryLog` |

The inductive invariant has a part about control and one about the table.
`LocksHeld` says who holds the locks: the call that builds, while its process has
no Cache, and the call that appends; hence one Cache, and one batch of a process
at a time. `Progress` ties the counter to where a call is and to its answer.
`CountedStored` and `StoredCounted` bound the rows of a call in the table from
below and above by its counter, the one uncounted row only once the call has
answered. That is `CountSound`, and it is why the next row is always larger than
those before it. `LastBatch` says that no other batch of a process follows the one
being appended: a call that takes the lock has no rows yet, and while it holds it
nobody else of its process inserts. `PrefixReported` (a call that has not
answered has stored exactly its first rows) makes each step one of `HistoryLog`.

`MemoryBackendProofs`, for any number of threads and keys, any limit, any TTLs and
any clock; `ClickHouseProofs`, for any keys, documents, TTLs and limits, any number
of rows and any choice among rows of one second; and `CacheBackendsProofs`, which
carries both over to a process that is given one of the backends:

| theorem | property |
|---|---|
| `BackendTypeCorrect` | `BackendTypeOK` |
| `BackendBounded` | `Bounded`: a positive limit is never exceeded |
| `BackendEvicts` | `EvictsLeastRecentlyUsed` |
| `BackendRemembers` | `ImplementsResponseCache` |
| `BackendHits` | `HitsGoBackOnlyPastExpiry` |
| `BackendViews` | `ViewsGrow` |
| `ProtocolKept` | `ImplementsCacheProtocol`: a hit was set under its key, is read back as the backend reads, and was within its TTL when the get began |

*Memory.* `Bounded` is nearly inductive; what was evicted is not. The dict is a
sequence, and a call takes entries out of it and puts at most one at its end. So
every lemma about the dict says which indices of the old sequence are left, in
their order (`LeftAt`), and what is said of entries in pairs is carried along that
map. The invariant adds `Recency` (an entry further back is of a key used since
the one further front was used) and `Remembers` (every entry holds the value last
set under its key, and a key without an entry is remembered by nobody). An evicted
entry is in front of as many others as the limit, all of different keys used since
its own; that is `EvictsLeastRecentlyUsed`. `Remembers` makes a hit the value
last set, whatever was done between the look at the clock and the lock: nothing
that the call carries over from before the lock but the clock is used, and the
clock only decides whether there is a hit.

*ClickHouse.* `ResponseInv` is little more than types: that an older row is never
picked over a younger live one follows from one step. `SeriesInv` adds `Cut`: no row
of the series outside an answer is older than one in it, and none that is appended
later will be, since stamps do not go back. If a later query leaves out a row that
was shown, a counting argument (`OneIsMissed`, on the pigeonhole theorem) says
that it is full and that it shows a row the first did not, and `Cut` on both sides
says that the two have the same stamp. Limits are natural numbers: the parameter of
the statement is an unsigned integer, and a negative one is an error, not an answer.

*Refinement.* The memory backend maps to `ResponseCache` by `latest`. To `CacheProtocol`
each maps by what is stored: the entries of the dict, and the rows of the table with
the second at which they end. Besides the types this needs that a call did not begin in
the future (`Begun`, `RequestsBegun`): then the moment a set counts its TTL from, the
look at the clock in the one and the server's stamp in the other, is a moment of the
call. Taking out, moving and evicting entries adds none (`EntriesWithin`).

`SumFacts` proves about the sums of the community modules, which are recursions
over subsets of the indices in an order the definition leaves open: `SumRecursion`
(every index is added once), and from it the laws the tools need, among them that
sums add and scale, that a sum does not depend on the names of its indices
(`SumReindexed`), that a set of the heaviest terms weighs most (`SumOfHeaviest`) and
the inequality between a sum and its squares (`SumOfSquares`). The induction
theorems of the library take an operator as parameter and cannot be used;
`SubsetInduction` takes a set of subsets in its place, and rests on the least
element of a set of naturals.

`ToolsProofs`, for any accounts, symbols, positions, values, trades, look-backs,
windows, lengths of a day, caps and moments:

| theorem | property |
|---|---|
| `ToolsTypeCorrect` | `TypeOK` |
| `CrossMarketValues` | `MarketValueAgrees` |
| `CrossAccountsReported` | `EveryAccountReported` |
| `CrossSharesAddUp` | `SharesAddUp`: the shares sum to the grand total, and each is zero when that is |
| `PnlWindow` | `PnlWindowAllowed` |
| `ConcentrationLabels` | `LabelNeedsPositions` |
| `ConcentrationLargest` | `LabelMatchesLargest` |
| `ConcentrationTop` | `TopIsHeaviest` |
| `DirectRaises` | `RaisesOnlyOnFaults`: for every kind of body, wrong shapes inside an object included |
| `DirectWindows` | `WindowsAsAccepted` |

The inductive invariant `ToolsInv` is the conjunction of one for each kind of tool:

- `CrossInv`: every row of `per_account` is what Schwab answered for the account at
  its place (`Rows`), and the totals are the sums of the columns, as is the roll-up
  (`Totals`). `MarketValueAgrees` compares with Schwab's answers and is not
  inductive without `Rows`, because an entry keeps only sums. The step of one account
  needs that its positions fall into the buckets of their symbols, each into one
  (`BySymbol`), and `Share` that a failed account weighs nothing.
- `PnlInv`: the look-back has been accepted for as long as requests are made, and the
  window is of the moment it was made at.
- `ConcentrationInv`: the block is computed in one step, so the properties carry
  themselves, and the work is in that step. Ranks are a bijection of places
  (`AheadIsOrder`, `RanksAreTaken`, again by pigeonholes), so `top_holdings` are the
  values of some positions and none outside weighs more. With n positions
  `SumOfSquares` gives `n * hhi >= total * total`, which for n up to four and up to
  six puts the label on its side of 0.25 and 0.15; that a largest weight `m` has
  `m * m <= hhi <= m * total` is the other property.
- `DirectInv`: a window was acceptable at `checkedAt` (`Checked`), which is past; the
  rest is arithmetic of days (`DayContains`, `DaysApart`, `DayBack`, `DaysCover`). No
  method is missing from the allow list (`MethodListed`), case by case.

The proofs rest on how some things are written. `Shaped` has no two `CASE` guards
that hold of the same body: TLC takes the first, but TLA+ says any, and the code is
an `if`. Ranks stand for the sort in `TopHoldings`, because a library sort is
evaluated natively by TLC and has no definition the provers can use, and `Delete` of
the memory backend takes out one place instead of selecting what to keep. Two
assumptions on constants hold of every run of the program: accounts and symbols are
finitely many (`CrossAssumption`), and the clock's bound does not lie before the end
of the day on which a call comes (`WindowAssumption`).

Only model-checked: liveness under fairness, which is `EventuallyAlarms` and the
`CallsEnd` of `TokenLifecycle` and of `HistoryWriter`. Its steps need `ENABLED`, which
the prover does not reason about. The sentences that the code violates are refuted by the
counterexamples of their runs.

## What is not modelled, and limits

- schwab-py, Schwab and the MCP host are external: `Live`, `RefreshGranted`,
  `WriteRefreshed` and `Restart` say what the code relies on. Access tokens are
  not distinguished; a live grant may or may not need a refresh at any call.
- Windows, where the mode of the token file is not checked and a rename over an
  open file fails.
- Status codes other than 401 are one outcome, `api_error` or `error`; wording,
  logging, notifications and redaction are left out.
- The columns and time stamps of a history row, among them `snapshot_at`, which is
  taken after the request (a snapshot of two calls may be stamped in the opposite
  order of their data; nothing orders by it), and the quantity, which loses the
  sign of a short position.
- `size` of the backends, which changes nothing.
- Floating point (the rounding of ages aside), percentages, the exposure by asset type, quantity and cash in
  the cross-account summary (summed like the market value), the sums of
  `get_account_summary` (whose total falls back to the day's P&L of a position
  whose open P&L is 0 or missing).
- The patterns and lengths of arguments: `Reject` may reject any. The schema
  libraries decide them field by field, without state.
- `bootstrap.py`, which reads `.env` once at import; `_platform.py` but for
  what the probe uses: its file lock, umask and chmod helpers have no caller in
  the package. `get_server_info` answers constants.

## Plan

The modules are written: what is left out is listed above, with the reason. Every
safety property and every refinement that a passing run checks is a theorem. What
is left:

1. Operators of which no property is stated: what `unrealized` and `realized` sum
   up, which would only say the sums again, and the percentages of the P&L tool.
2. The converse bounds of the label, which the run meets exactly: that four equal
   positions sit at 0.25 and that seven can be diversified are existence statements,
   for which the reachable states of `MCTools` are the witnesses.
3. The steps of the liveness arguments that need no fairness: that a variant, such
   as the rows a call has left, goes down with each of its steps and that a step
   which is blocked waits for one that is not.
