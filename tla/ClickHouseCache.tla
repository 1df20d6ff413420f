--------------------------- MODULE ClickHouseCache ---------------------------
(***************************************************************************)
(* The response cache of ClickHouseBackend: get, set and clear are one     *)
(* statement each on a table that all processes share.  A set inserts a    *)
(* row and deletes none; a get picks the youngest of the rows that live.   *)
(* Time is the server's, in whole seconds, at which a statement gets there *)
(* and not at which it was called.  Any statement may fail, which a caller *)
(* sees as a miss, or not at all.                                          *)
(***************************************************************************)
EXTENDS CacheCalls, FiniteSets

CONSTANTS
  Clients,       \* the processes with a connection; its lock lets one call through at a time
  CacheKeys,     \* (table_name, cache_key)
  Documents,     \* what callers set
  Json,          \* [Documents -> what json.loads makes of json.dumps(.., default=str)]
  MaxResponses,  \* bound: rows in the table
  MaxSeconds     \* bound: now() stops here

ASSUME ClickHouseAssumption ==
  /\ \A d \in Documents : Json[d] # Miss
  /\ MaxResponses \in Nat
  /\ MaxSeconds \in Nat

VARIABLES
  now,        \* the server's now()
  responses,  \* the rows of schwab_positions_response_cache
  request,    \* [Clients -> the call that waits for the server, with (history) when it began]
  found,      \* [Clients -> what the client's last get returned]
  hit         \* history: [CacheKeys -> fetched_at of the row the last hit came from, or -1]

responseVars == <<now, responses, request, found, hit>>

Loaded == {Json[d] : d \in Documents}

Response == [key: CacheKeys, raw: Loaded, fetched_at: Nat, ttl: Nat]

ResponseTypeOK ==
  /\ now \in Nat
  /\ responses \subseteq Response
  /\ request \in [Clients -> Calls(CacheKeys, Documents)]
  /\ found \in [Clients -> Loaded \cup {Miss}]
  /\ hit \in [CacheKeys -> Nat \cup {-1}]

ResponseInit ==
  /\ now = 0
  /\ responses = {}
  /\ request = [c \in Clients |-> Idle]
  /\ found = [c \in Clients |-> Miss]
  /\ hit = [k \in CacheKeys |-> -1]

\* fetched_at + INTERVAL ttl_seconds SECOND >= now()
Fresh(r) == r.fetched_at + r.ttl >= now

\* A fault: the rows come in no order.
SelectedUnordered(k) == {r \in responses : r.key = k /\ Fresh(r)}

\* A fault: the youngest row, whether it lives or not.
SelectedAnyAge(k) ==
  {r \in responses : /\ r.key = k
                     /\ \A s \in responses : s.key = k => s.fetched_at <= r.fetched_at}

\* ORDER BY fetched_at DESC LIMIT 1: rows of one second are equally young.
Selected(k) ==
  {r \in responses : /\ r.key = k /\ Fresh(r)
                     /\ \A s \in responses : s.key = k /\ Fresh(s) => s.fetched_at <= r.fetched_at}

RequestGet(c) ==
  /\ request[c] = Idle
  /\ \E k \in CacheKeys : request' = [request EXCEPT ![c] = GetCall(k, now)]
  /\ UNCHANGED <<now, responses, found, hit>>

RequestSet(c) ==
  /\ request[c] = Idle
  /\ \E k \in CacheKeys, d \in Documents, ttl \in Ttls :
       request' = [request EXCEPT ![c] = SetCall(k, d, ttl, now)]
  /\ UNCHANGED <<now, responses, found, hit>>

EndRequest(c) == request' = [request EXCEPT ![c] = Idle]

GetResponse(c) ==
  /\ request[c].kind = "get"
  /\ \E r \in Selected(request[c].key) :
       /\ found' = [found EXCEPT ![c] = r.raw]
       /\ hit' = [hit EXCEPT ![r.key] = r.fetched_at]
  /\ EndRequest(c)
  /\ UNCHANGED <<now, responses>>

\* No row lives, or the statement failed.
GetNothing(c) ==
  /\ request[c].kind = "get"
  /\ found' = [found EXCEPT ![c] = Miss]
  /\ EndRequest(c)
  /\ UNCHANGED <<now, responses, hit>>

\* The server stamps the row; that its answer is lost makes no difference to set.
InsertResponse(c) ==
  /\ request[c].kind = "set"
  /\ Cardinality(responses) < MaxResponses
  /\ responses' = responses \cup
       {[key |-> request[c].key, raw |-> Json[request[c].value],
         fetched_at |-> now, ttl |-> Clamped(request[c].ttl)]}
  /\ EndRequest(c)
  /\ UNCHANGED <<now, found, hit>>

\* A set that failed without a row leaves no trace.
InsertFails(c) ==
  /\ request[c].kind = "set"
  /\ EndRequest(c)
  /\ UNCHANGED <<now, responses, found, hit>>

\* clear
Truncate ==
  /\ responses # {}
  /\ responses' = {}
  /\ UNCHANGED <<now, request, found, hit>>

SecondPasses ==
  /\ now < MaxSeconds
  /\ now' = now + 1
  /\ UNCHANGED <<responses, request, found, hit>>

ResponseNext ==
  \/ \E c \in Clients :
       \/ RequestGet(c)
       \/ RequestSet(c)
       \/ GetResponse(c)
       \/ GetNothing(c)
       \/ InsertResponse(c)
       \/ InsertFails(c)
  \/ Truncate
  \/ SecondPasses

-----------------------------------------------------------------------------

\* What the gets of a key return, in any process, only grows younger: an older
\* row comes back after a younger one only when every row as young as that has
\* run out its own, shorter TTL.
HitsGoBackOnlyPastExpiry ==
  [][\A k \in CacheKeys : hit'[k] < hit[k] =>
       \A r \in responses : (r.key = k /\ r.fetched_at >= hit[k]) => ~Fresh(r)]_responseVars

\* To the callers the rows are entries of the one protocol: what a get returns is what
\* JSON makes of a document that was set under the key by a call that is not longer
\* ago than its TTL allows, the last second of which counts.
ResponseProtocol == INSTANCE CacheProtocol WITH
  Callers <- Clients,
  Keys <- CacheKeys,
  Values <- Documents,
  Read <- Json,
  Grace <- 1,
  time <- now,
  pending <- request,
  offered <- {[key |-> r.key, value |-> r.raw, expires |-> r.fetched_at + r.ttl] : r \in responses},
  result <- found
=============================================================================
