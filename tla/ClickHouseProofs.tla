--------------------------- MODULE ClickHouseProofs ---------------------------
(***************************************************************************)
(* Proofs, for any documents, keys and TTLs and any number of rows, of the *)
(* properties of the two tables of ClickHouse that are read back: the      *)
(* response cache and the history series.                                  *)
(***************************************************************************)
EXTENDS ClickHouseCache, TimeSeries, SequenceTheorems, FiniteSetTheorems, TLAPS

-----------------------------------------------------------------------------
(* The response cache *)

\* No call began later than now.
RequestsBegun == \A c \in Clients : request[c] # Idle => request[c].now <= now

ResponseInv == ResponseTypeOK /\ RequestsBegun

USE ClickHouseAssumption, CallAssumption, SeriesAssumption

ResponseSpec == ResponseInit /\ [][ResponseNext]_responseVars

\* max(0, ttl_seconds) is a natural number.
LEMMA ClampedNat == \A ttl \in Ttls : Clamped(ttl) \in Nat
BY DEF Clamped

\* The table begins empty and no call is under way.
LEMMA ResponseInitHolds == ResponseInit => ResponseInv
BY DEF ResponseInit, ResponseInv, ResponseTypeOK, RequestsBegun, Calls

\* What a client waits for.
LEMMA RequestFields ==
  ASSUME ResponseTypeOK, NEW c \in Clients
  PROVE  /\ request[c].kind = "get" => /\ request[c].key \in CacheKeys /\ request[c].now \in Nat
                                        /\ request[c] # Idle
         /\ request[c].kind = "set" => /\ request[c].key \in CacheKeys /\ request[c].value \in Documents
                                        /\ request[c].ttl \in Ttls /\ request[c].now \in Nat
                                        /\ request[c] # Idle
<1>1. request[c] \in Calls(CacheKeys, Documents)
  BY DEF ResponseTypeOK
<1>2. request[c].kind = "get" => request[c] \in [kind: {"get"}, key: CacheKeys, now: Nat]
  BY <1>1 DEF Calls, Idle
<1>3. request[c].kind = "set" =>
        request[c] \in [kind: {"set"}, key: CacheKeys, value: Documents, ttl: Ttls, now: Nat]
  BY <1>1 DEF Calls, Idle
<1>4. request[c].kind \in {"get", "set"} => request[c] # Idle
  BY DEF Idle
<1> QED
  BY <1>2, <1>3, <1>4

\* A row that a get may pick.
LEMMA SelectedRow ==
  ASSUME ResponseTypeOK, NEW k, NEW r \in Selected(k)
  PROVE  /\ r \in responses /\ r.key = k /\ Fresh(r)
         /\ r.raw \in Loaded /\ r.fetched_at \in Nat
<1>1. r \in responses /\ r.key = k /\ Fresh(r)
  BY DEF Selected
<1> QED
  BY <1>1 DEF ResponseTypeOK, Response

\* The row that a set inserts.
NewRow(c) == [key |-> request[c].key, raw |-> Json[request[c].value],
              fetched_at |-> now, ttl |-> Clamped(request[c].ttl)]

\* It is a row of the table.
LEMMA NewRowTyped ==
  ASSUME ResponseInv, NEW c \in Clients, request[c].kind = "set"
  PROVE  NewRow(c) \in Response
<1>1. /\ request[c].key \in CacheKeys /\ request[c].value \in Documents
      /\ request[c].ttl \in Ttls /\ now \in Nat
  BY RequestFields DEF ResponseInv, ResponseTypeOK
<1>2. Json[request[c].value] \in Loaded /\ Clamped(request[c].ttl) \in Nat
  BY <1>1, ClampedNat DEF Loaded
<1> QED
  BY <1>1, <1>2 DEF NewRow, Response

\* Every step of the response cache keeps its invariant.
LEMMA ResponseNextKeeps == ResponseInv /\ [ResponseNext]_responseVars => ResponseInv'
<1> SUFFICES ASSUME ResponseInv, [ResponseNext]_responseVars PROVE ResponseInv'
  OBVIOUS
<1> USE DEF ResponseInv, ResponseTypeOK, RequestsBegun
<1>0. Idle \in Calls(CacheKeys, Documents)
  BY DEF Calls
<1>1. ASSUME NEW c \in Clients, EndRequest(c), UNCHANGED now
      PROVE  request' \in [Clients -> Calls(CacheKeys, Documents)] /\ RequestsBegun'
  BY <1>0, <1>1 DEF EndRequest
<1>2. ASSUME NEW c \in Clients, GetResponse(c) PROVE ResponseInv'
  <2>1. PICK r \in Selected(request[c].key) :
          found' = [found EXCEPT ![c] = r.raw] /\ hit' = [hit EXCEPT ![r.key] = r.fetched_at]
    BY <1>2 DEF GetResponse
  <2>2. r.raw \in Loaded /\ r.fetched_at \in Nat
    BY SelectedRow
  <2> QED
    BY <1>1, <1>2, <2>1, <2>2 DEF GetResponse
<1>3. ASSUME NEW c \in Clients, InsertResponse(c) PROVE ResponseInv'
  <2>1. responses' = responses \cup {NewRow(c)} /\ NewRow(c) \in Response
    BY <1>3, NewRowTyped DEF InsertResponse, NewRow
  <2> QED
    BY <1>1, <1>3, <2>1 DEF InsertResponse
<1>4. ASSUME NEW c \in Clients, RequestGet(c) \/ RequestSet(c) PROVE ResponseInv'
  <2>1. PICK call \in Calls(CacheKeys, Documents) :
          call.now = now /\ request' = [request EXCEPT ![c] = call]
    <3>1. CASE RequestGet(c)
      <4>1. PICK k \in CacheKeys : request' = [request EXCEPT ![c] = GetCall(k, now)]
        BY <3>1 DEF RequestGet
      <4>2. GetCall(k, now) \in Calls(CacheKeys, Documents) /\ GetCall(k, now).now = now
        BY DEF GetCall, Calls
      <4> QED
        BY <4>1, <4>2
    <3>2. CASE RequestSet(c)
      <4>1. PICK k \in CacheKeys, d \in Documents, ttl \in Ttls :
              request' = [request EXCEPT ![c] = SetCall(k, d, ttl, now)]
        BY <3>2 DEF RequestSet
      <4>2. SetCall(k, d, ttl, now) \in Calls(CacheKeys, Documents) /\ SetCall(k, d, ttl, now).now = now
        BY DEF SetCall, Calls
      <4> QED
        BY <4>1, <4>2
    <3> QED
      BY <1>4, <3>1, <3>2
  <2>2. UNCHANGED <<now, responses, found, hit>>
    BY <1>4 DEF RequestGet, RequestSet
  <2>3. now <= now
    OBVIOUS
  <2> QED
    BY <2>1, <2>2, <2>3
<1>5. ASSUME NEW c \in Clients, GetNothing(c) PROVE ResponseInv'
  BY <1>1, <1>5 DEF GetNothing
<1>6. ASSUME NEW c \in Clients, InsertFails(c) PROVE ResponseInv'
  BY <1>1, <1>6 DEF InsertFails
<1>7. CASE Truncate
  BY <1>7 DEF Truncate
<1>8. CASE SecondPasses
  <2>1. \A c \in Clients : request[c] # Idle => request[c].now \in Nat
    BY DEF Calls
  <2> QED
    BY <1>8, <2>1 DEF SecondPasses
<1>9. CASE UNCHANGED responseVars
  BY <1>9 DEF responseVars
<1> QED
  BY <1>2, <1>3, <1>4, <1>5, <1>6, <1>7, <1>8, <1>9 DEF ResponseNext

\* The invariant of the response cache holds, whatever is inserted, read and cleared.
THEOREM ResponseInvariance == ResponseSpec => []ResponseInv
BY ResponseInitHolds, ResponseNextKeeps, PTL DEF ResponseSpec

\* Every row of the response table, and every answer, keeps its type.
THEOREM ResponseTypeCorrect == ResponseSpec => []ResponseTypeOK
<1>1. ResponseInv => ResponseTypeOK
  BY DEF ResponseInv
<1> QED
  BY <1>1, ResponseInvariance, PTL

\* An older row is returned after a younger one only past the expiry of all so young.
HitGoesBackPastExpiry ==
  \A k \in CacheKeys : hit'[k] < hit[k] =>
    \A r \in responses : (r.key = k /\ r.fetched_at >= hit[k]) => ~Fresh(r)

\* A get picks no row older than a live one of the same key.
LEMMA ResponseNextHits == ResponseInv /\ [ResponseNext]_responseVars => [HitGoesBackPastExpiry]_responseVars
<1> SUFFICES ASSUME ResponseInv, ResponseNext, NEW k \in CacheKeys, hit'[k] < hit[k],
                    NEW s \in responses, s.key = k, s.fetched_at >= hit[k], Fresh(s)
             PROVE  FALSE
  BY DEF HitGoesBackPastExpiry
<1>1. hit[k] \in Int /\ s.fetched_at \in Nat
  BY DEF ResponseInv, ResponseTypeOK, Response
<1>2. PICK c \in Clients : GetResponse(c)
  BY <1>1 DEF ResponseNext, RequestGet, RequestSet, GetNothing, InsertResponse, InsertFails,
     Truncate, SecondPasses
<1> DEFINE x == request[c].key
<1>3. PICK r \in Selected(x) : hit' = [hit EXCEPT ![r.key] = r.fetched_at]
  BY <1>2 DEF GetResponse
<1>4. r.key = x /\ r.fetched_at \in Nat
  BY SelectedRow DEF ResponseInv
<1>5. x = k /\ hit'[k] = r.fetched_at
  BY <1>1, <1>3, <1>4 DEF ResponseInv, ResponseTypeOK
<1>6. s.fetched_at <= r.fetched_at
  BY <1>5 DEF Selected
<1> QED
  BY <1>1, <1>4, <1>5, <1>6

\* An older response comes back only when every younger one has run out.
THEOREM HitsCorrect == ResponseSpec => HitsGoBackOnlyPastExpiry
<1>1. ResponseSpec => [][HitGoesBackPastExpiry]_responseVars
  BY ResponseInvariance, ResponseNextHits, PTL DEF ResponseSpec
<1> QED
  BY <1>1 DEF HitsGoBackOnlyPastExpiry, HitGoesBackPastExpiry

-----------------------------------------------------------------------------
(* The response cache keeps the protocol *)

\* The rows, as the protocol sees them.
OfferOf(r) == [key |-> r.key, value |-> r.raw, expires |-> r.fetched_at + r.ttl]
offers == {OfferOf(r) : r \in responses}

protocolView == <<now, request, offers, found>>

\* Every step of the response cache is one the protocol allows.
LEMMA ResponseStepAllowed ==
  ResponseInv /\ [ResponseNext]_responseVars => [ResponseProtocol!Next]_protocolView
<1> SUFFICES ASSUME ResponseInv, [ResponseNext]_responseVars
             PROVE  [ResponseProtocol!Next]_protocolView
  OBVIOUS
<1>0. now \in Nat /\ {OfferOf(r) : r \in responses} = offers
  BY DEF ResponseInv, ResponseTypeOK, offers
<1> USE DEF offers, OfferOf
<1>1. ASSUME NEW c \in Clients, RequestGet(c) PROVE ResponseProtocol!Ask(c)
  BY <1>1 DEF RequestGet, ResponseProtocol!Ask, ResponseProtocol!GetCall, ResponseProtocol!Idle, GetCall, Idle
<1>2. ASSUME NEW c \in Clients, RequestSet(c) PROVE ResponseProtocol!Ask(c)
  BY <1>2 DEF RequestSet, ResponseProtocol!Ask, ResponseProtocol!SetCall, ResponseProtocol!Idle, SetCall, Idle
<1>3. ASSUME NEW c \in Clients, GetResponse(c) PROVE ResponseProtocol!Get(c)
  <2> DEFINE call == request[c]
  <2>1. call.kind = "get" /\ call.now \in Nat /\ call.now <= now
    BY <1>3, RequestFields DEF GetResponse, ResponseInv, RequestsBegun
  <2>2. PICK r \in Selected(call.key) : found' = [found EXCEPT ![c] = r.raw]
    BY <1>3 DEF GetResponse
  <2>3. r \in responses /\ r.key = call.key /\ r.fetched_at + r.ttl >= now /\ r.fetched_at + r.ttl \in Nat
    <3>1. r \in responses /\ r.key = call.key /\ Fresh(r)
      BY SelectedRow DEF ResponseInv
    <3>2. r \in Response
      BY <3>1 DEF ResponseInv, ResponseTypeOK
    <3> QED
      BY <3>1, <3>2 DEF Fresh, Response
  <2>4. call.now < (r.fetched_at + r.ttl) + 1
    BY <1>0, <2>1, <2>3
  <2>5. OfferOf(r) \in offers /\ OfferOf(r).key = call.key /\ OfferOf(r).value = r.raw
        /\ call.now < OfferOf(r).expires + 1
    BY <2>3, <2>4
  <2>6. r.raw \in ResponseProtocol!Hits(call.key, call.now)
    BY <2>5, Zenon DEF ResponseProtocol!Hits
  <2> QED
    BY <1>3, <2>1, <2>2, <2>6 DEF GetResponse, EndRequest, ResponseProtocol!Get, ResponseProtocol!Done,
       ResponseProtocol!Idle, Idle
<1>4. ASSUME NEW c \in Clients, GetNothing(c) PROVE ResponseProtocol!Get(c)
  BY <1>4 DEF GetNothing, EndRequest, ResponseProtocol!Get, ResponseProtocol!Done, ResponseProtocol!Idle, Idle
<1>5. ASSUME NEW c \in Clients, InsertResponse(c) PROVE ResponseProtocol!Set(c)
  <2> DEFINE call == request[c]
  <2>1. call.kind = "set" /\ call.now \in Nat /\ call.now <= now
    BY <1>5, RequestFields DEF InsertResponse, ResponseInv, RequestsBegun
  <2>2. responses' = responses \cup {NewRow(c)}
    BY <1>5 DEF InsertResponse, NewRow
  <2>3. OfferOf(NewRow(c)) =
          [key |-> call.key, value |-> Json[call.value], expires |-> now + Clamped(call.ttl)]
    BY DEF NewRow
  <2>4. offers' = offers \cup {OfferOf(NewRow(c))}
    BY <2>2
  <2>5. now \in call.now .. now
    BY <1>0, <2>1
  <2>6. ResponseProtocol!Clamped(call.ttl) = Clamped(call.ttl)
    BY DEF ResponseProtocol!Clamped, Clamped
  <2> QED
    BY <1>5, <2>1, <2>3, <2>4, <2>5, <2>6 DEF InsertResponse, EndRequest, ResponseProtocol!Set,
       ResponseProtocol!Done, ResponseProtocol!Idle, Idle
<1>6. ASSUME NEW c \in Clients, InsertFails(c) PROVE ResponseProtocol!Set(c)
  <2>1. request[c].kind = "set" /\ now \in request[c].now .. now
    BY <1>0, <1>6, RequestFields DEF InsertFails, ResponseInv, RequestsBegun
  <2> QED
    BY <1>6, <2>1 DEF InsertFails, EndRequest, ResponseProtocol!Set, ResponseProtocol!Done,
       ResponseProtocol!Idle, Idle
<1>7. CASE Truncate
  BY <1>7 DEF Truncate, ResponseProtocol!Next, ResponseProtocol!Lose
<1>8. CASE SecondPasses
  <2>1. now' > now
    BY <1>0, <1>8 DEF SecondPasses
  <2> QED
    BY <1>8, <2>1 DEF SecondPasses, ResponseProtocol!Next, ResponseProtocol!Pass
<1>9. CASE UNCHANGED responseVars
  BY <1>9 DEF responseVars, protocolView
<1> QED
  BY <1>1, <1>2, <1>3, <1>4, <1>5, <1>6, <1>7, <1>8, <1>9 DEF ResponseNext, ResponseProtocol!Next

\* A get of the response cache returns what JSON makes of a document set under the key,
\* whose TTL had not run out a second before the get began.
THEOREM ResponseProtocolKept == ResponseSpec => ResponseProtocol!Spec
<1>1. ResponseInit => ResponseProtocol!Init
  BY DEF ResponseInit, ResponseProtocol!Init, ResponseProtocol!Idle, Idle
<1>2. ResponseSpec => [][ResponseProtocol!Next]_protocolView
  BY ResponseInvariance, ResponseStepAllowed, PTL DEF ResponseSpec
<1> QED
  BY <1>1, <1>2, PTL DEF ResponseSpec, ResponseProtocol!Spec, ResponseProtocol!protocolVars,
     protocolView, offers, OfferOf

-----------------------------------------------------------------------------
(* The history series *)

\* Stamps do not come from the future; the answer lists rows of the series, no more
\* than its limit, and no row that it leaves out is older than one that it shows:
\* not one that is appended later either.
Stamped == \A k \in 1..Len(series) : series[k] <= stamp
Listed == Len(view.rows) <= view.limit /\ \A i \in 1..Len(view.rows) : view.rows[i] \in 1..Len(series)
Cut ==
  \A k \in 1..Len(series) : (\A i \in 1..Len(view.rows) : view.rows[i] # k) =>
    \A i \in 1..Len(view.rows) : series[view.rows[i]] <= series[k]

SeriesInv == SeriesTypeOK /\ Len(series) <= MaxSeries /\ Stamped /\ Listed /\ Cut

SeriesSpec == SeriesInit /\ [][SeriesNext]_seriesVars

\* The series begins empty and nothing is shown.
LEMMA SeriesInitHolds == SeriesInit => SeriesInv
<1> SUFFICES ASSUME SeriesInit PROVE SeriesInv
  OBVIOUS
<1>1. /\ series = <<>> /\ series \in Seq(Nat) /\ Len(series) = 0
      /\ view = [limit |-> 0, rows |-> <<>>] /\ <<>> \in Seq(1..MaxSeries) /\ Len(view.rows) = 0
  BY DEF SeriesInit
<1> QED
  BY <1>1 DEF SeriesInit, SeriesInv, SeriesTypeOK, Stamped, Listed, Cut

\* What a query may answer.
LEMMA SelectProperties ==
  ASSUME SeriesInv, NEW limit \in Nat, NEW rows \in Select(limit)
  PROVE  /\ rows \in Seq(1..Len(series)) /\ rows \in Seq(1..MaxSeries)
         /\ Len(rows) = Least(limit, Len(series)) /\ Len(rows) \in Nat
         /\ \A i \in 1..Len(rows) : rows[i] \in 1..Len(series)
         /\ \A i, j \in 1..Len(rows) : rows[i] = rows[j] => i = j
         /\ \A k \in 1..Len(series) : (\A i \in 1..Len(rows) : rows[i] # k) =>
              \A i \in 1..Len(rows) : series[rows[i]] <= series[k]
<1> DEFINE n == Least(limit, Len(series))
<1>1. n \in Nat /\ Len(series) \in Nat /\ Len(series) <= MaxSeries
  BY LenProperties DEF Least, SeriesInv, SeriesTypeOK
<1>2. /\ rows \in [1..n -> 1..Len(series)]
      /\ \A i, j \in 1..n : i # j => rows[i] # rows[j]
      /\ \A k \in 1..Len(series) : (\A i \in 1..n : rows[i] # k) =>
           \A i \in 1..n : series[rows[i]] <= series[k]
  BY DEF Select, Lists
<1> HIDE DEF n
<1>3. rows \in Seq(1..Len(series)) /\ Len(rows) = n
  BY <1>1, <1>2
<1>4. rows \in [1..n -> 1..MaxSeries]
  BY <1>1, <1>2
<1>5. rows \in Seq(1..MaxSeries)
  BY <1>1, <1>4
<1> QED
  BY <1>1, <1>2, <1>3, <1>5 DEF n

\* Every step of the series keeps its invariant.
LEMMA SeriesNextKeeps == SeriesInv /\ [SeriesNext]_seriesVars => SeriesInv'
<1> SUFFICES ASSUME SeriesInv, [SeriesNext]_seriesVars PROVE SeriesInv'
  OBVIOUS
<1>1. /\ stamp \in Nat /\ series \in Seq(Nat) /\ Len(series) \in Nat
      /\ \A k \in 1..Len(series) : series[k] \in Nat
      /\ view \in [limit: Nat, rows: Seq(1..MaxSeries)] /\ Len(view.rows) \in Nat
  BY LenProperties DEF SeriesInv, SeriesTypeOK
<1>2. CASE AppendTimeseries
  <2>1. /\ series' = Append(series, stamp) /\ stamp' = stamp /\ view' = view
        /\ Len(series) < MaxSeries
    BY <1>2 DEF AppendTimeseries
  <2>2. /\ series' \in Seq(Nat) /\ Len(series') = Len(series) + 1
        /\ \A k \in 1..Len(series) : series'[k] = series[k]
        /\ series'[Len(series) + 1] = stamp
    BY <1>1, <2>1, AppendProperties
  <2>3. \A k \in 1..Len(series') : k \in 1..Len(series) \/ k = Len(series) + 1
    BY <1>1, <2>2
  <2>4. SeriesTypeOK' /\ Len(series') <= MaxSeries
    BY <1>1, <2>1, <2>2 DEF SeriesTypeOK
  <2>5. Stamped'
    BY <1>1, <2>1, <2>2, <2>3 DEF Stamped, SeriesInv
  <2>6. Listed'
    BY <1>1, <2>1, <2>2 DEF Listed, SeriesInv
  <2>7. Cut'
    <3> SUFFICES ASSUME NEW k \in 1..Len(series'), \A i \in 1..Len(view.rows) : view.rows[i] # k,
                        NEW i \in 1..Len(view.rows)
                 PROVE  series'[view.rows[i]] <= series'[k]
      BY <2>1 DEF Cut
    <3>1. view.rows[i] \in 1..Len(series) /\ series'[view.rows[i]] = series[view.rows[i]]
      BY <2>2 DEF Listed, SeriesInv
    <3>2. CASE k \in 1..Len(series)
      BY <2>2, <3>1, <3>2 DEF Cut, SeriesInv
    <3>3. CASE k = Len(series) + 1
      BY <2>2, <3>1, <3>3 DEF Stamped, SeriesInv
    <3> QED
      BY <2>3, <3>2, <3>3
  <2> QED
    BY <2>4, <2>5, <2>6, <2>7 DEF SeriesInv
<1>3. CASE QueryTimeseries
  <2>0. PICK limit \in Limits : \E rows \in Select(limit) : view' = [limit |-> limit, rows |-> rows]
    BY <1>3 DEF QueryTimeseries
  <2>1. PICK rows \in Select(limit) : view' = [limit |-> limit, rows |-> rows]
    BY <2>0
  <2>2. limit \in Nat /\ stamp' = stamp /\ series' = series
    BY <1>3 DEF QueryTimeseries
  <2>3. /\ rows \in Seq(1..MaxSeries)
        /\ Len(rows) = Least(limit, Len(series)) /\ Len(rows) \in Nat
        /\ \A i \in 1..Len(rows) : rows[i] \in 1..Len(series)
        /\ \A k \in 1..Len(series) : (\A i \in 1..Len(rows) : rows[i] # k) =>
             \A i \in 1..Len(rows) : series[rows[i]] <= series[k]
    BY <2>2, SelectProperties
  <2>4. Len(rows) <= limit
    BY <1>1, <2>2, <2>3 DEF Least
  <2>5. view'.limit = limit /\ view'.rows = rows
    BY <2>1
  <2>6. SeriesTypeOK'
    BY <1>1, <2>1, <2>2, <2>3 DEF SeriesTypeOK
  <2>7. Listed' /\ Cut' /\ Stamped'
    BY <2>2, <2>3, <2>4, <2>5 DEF Listed, Cut, Stamped, SeriesInv
  <2> QED
    BY <2>2, <2>6, <2>7 DEF SeriesInv
<1>4. CASE StampPasses
  <2>1. stamp' = stamp + 1 /\ series' = series /\ view' = view
    BY <1>4 DEF StampPasses
  <2>2. Stamped'
    BY <1>1, <2>1 DEF Stamped, SeriesInv
  <2>3. SeriesTypeOK'
    BY <1>1, <2>1 DEF SeriesTypeOK
  <2>4. Listed' /\ Cut'
    BY <2>1 DEF Listed, Cut, SeriesInv
  <2> QED
    BY <2>1, <2>2, <2>3, <2>4 DEF SeriesInv
<1>5. CASE UNCHANGED seriesVars
  BY <1>5 DEF seriesVars, SeriesInv, SeriesTypeOK, Stamped, Listed, Cut
<1> QED
  BY <1>2, <1>3, <1>4, <1>5 DEF SeriesNext

\* The invariant of a history series and of what was last shown of it holds.
THEOREM SeriesInvariance == SeriesSpec => []SeriesInv
BY SeriesInitHolds, SeriesNextKeeps, PTL DEF SeriesSpec

\* The stamps of a series and the rows shown keep their types.
THEOREM SeriesTypeCorrect == SeriesSpec => []SeriesTypeOK
<1>1. SeriesInv => SeriesTypeOK
  BY DEF SeriesInv
<1> QED
  BY <1>1, SeriesInvariance, PTL

\* n different places, none of them one of the m there are: n is less than m.
Misses(f, n, m, x) ==
  /\ n \in Nat /\ m \in Nat /\ f \in [1..n -> 1..m]
  /\ \A i, j \in 1..n : f[i] = f[j] => i = j
  /\ x \in 1..m /\ \A i \in 1..n : f[i] # x

\* If a list without repetition misses one of m places, it is shorter than m.
LEMMA OneIsMissed ==
  ASSUME NEW f, NEW n, NEW m, NEW x, Misses(f, n, m, x)
  PROVE  n < m
<1>0. /\ n \in Nat /\ m \in Nat /\ f \in [1..n -> 1..m]
      /\ \A i, j \in 1..n : f[i] = f[j] => i = j
      /\ x \in 1..m /\ \A i \in 1..n : f[i] # x
  BY DEF Misses
<1>1. IsFiniteSet(1..m) /\ Cardinality(1..m) = m /\ IsFiniteSet(1..n) /\ Cardinality(1..n) = n
  BY <1>0, FS_Interval
<1>2. IsFiniteSet((1..m) \ {x}) /\ Cardinality((1..m) \ {x}) = m - 1
  BY <1>0, <1>1, FS_RemoveElement
<1>3. f \in [1..n -> (1..m) \ {x}]
  BY <1>0
<1>4. ASSUME m - 1 < n PROVE FALSE
  <2> DEFINE S == 1..n
             T == (1..m) \ {x}
  <2> HIDE DEF S, T
  <2>0. IsFiniteSet(S) /\ IsFiniteSet(T) /\ Cardinality(T) < Cardinality(S) /\ f \in [S -> T]
    BY <1>1, <1>2, <1>3, <1>4 DEF S, T
  <2>1. \E i, j \in S : i # j /\ f[i] = f[j]
    BY <2>0, FS_PigeonHole
  <2> QED
    BY <1>0, <2>1 DEF S
<1> QED
  BY <1>0, <1>4

\* What an answer shows stays shown.
ViewGrows ==
  view'.limit >= view.limit =>
    \A r \in Shown(view) \ Shown(view') :
      /\ Len(view'.rows) = view'.limit
      /\ \E s \in Shown(view') \ Shown(view) : series[s] = series[r]

\* A query that leaves out a shown row is full, and shows one of the same stamp.
LEMMA SeriesNextGrows == SeriesInv /\ [SeriesNext]_seriesVars => [ViewGrows]_seriesVars
<1> SUFFICES ASSUME SeriesInv, SeriesNext, view'.limit >= view.limit,
                    NEW r \in Shown(view), r \notin Shown(view')
             PROVE  /\ Len(view'.rows) = view'.limit
                    /\ \E s \in Shown(view') \ Shown(view) : series[s] = series[r]
  BY DEF ViewGrows
<1>1. QueryTimeseries
  BY DEF SeriesNext, AppendTimeseries, StampPasses
<1>0. PICK limit \in Limits : \E rows \in Select(limit) : view' = [limit |-> limit, rows |-> rows]
  BY <1>1 DEF QueryTimeseries
<1>2. PICK rows \in Select(limit) : view' = [limit |-> limit, rows |-> rows]
  BY <1>0
<1> DEFINE n == Len(rows)
           m == Len(view.rows)
           old == view.rows
<1>3. view'.limit = limit /\ view'.rows = rows /\ limit \in Nat
  BY <1>2
<1>4. /\ n = Least(limit, Len(series)) /\ n \in Nat
      /\ \A i \in 1..n : rows[i] \in 1..Len(series)
      /\ \A i, j \in 1..n : rows[i] = rows[j] => i = j
      /\ \A k \in 1..Len(series) : (\A i \in 1..n : rows[i] # k) =>
           \A i \in 1..n : series[rows[i]] <= series[k]
  BY <1>3, SelectProperties
<1>5. rows \in Seq(1..Len(series))
  BY <1>3, SelectProperties
<1>6. /\ m \in Nat /\ Len(series) \in Nat /\ view.limit \in Nat /\ m <= view.limit
      /\ \A i \in 1..m : old[i] \in 1..Len(series)
      /\ \A k \in 1..Len(series) : series[k] \in Nat
      /\ \A k \in 1..Len(series) : (\A i \in 1..m : old[i] # k) =>
           \A i \in 1..m : series[old[i]] <= series[k]
  BY LenProperties DEF SeriesInv, SeriesTypeOK, Listed, Cut
<1>7. /\ \A x : x \in Shown(view) <=> \E i \in 1..m : old[i] = x
      /\ \A x : x \in Shown(view') <=> \E i \in 1..n : rows[i] = x
  BY <1>3 DEF Shown
<1> HIDE DEF n, m, old
<1>8. PICK j \in 1..m : old[j] = r
  BY <1>7
<1>9. r \in 1..Len(series) /\ \A i \in 1..n : rows[i] # r
  BY <1>6, <1>7, <1>8
\* The answer is cut at the limit.
<1>10. n = limit
  <2>1. rows \in [1..n -> 1..Len(series)]
    BY <1>5, LenProperties DEF n
  <2>2. \A i, x \in 1..n : rows[i] = rows[x] => i = x
    BY <1>4
  <2>3. n \in Nat /\ Len(series) \in Nat
    BY <1>4, <1>6
  <2>4. n < Len(series)
    <3>1. Misses(rows, n, Len(series), r)
      BY <1>9, <2>1, <2>2, <2>3 DEF Misses
    <3> QED
      BY <3>1, OneIsMissed
  <2> QED
    BY <1>3, <1>4, <1>6, <2>4 DEF Least
\* It has no fewer rows than the last, so one of them is new.
<1>11. PICK i \in 1..n : \A x \in 1..m : old[x] # rows[i]
  <2> SUFFICES ASSUME \A i \in 1..n : \E x \in 1..m : old[x] = rows[i] PROVE FALSE
    OBVIOUS
  <2> DEFINE f == [i \in 1..n |-> CHOOSE x \in 1..m : old[x] = rows[i]]
  <2>1. \A i \in 1..n : f[i] \in 1..m /\ old[f[i]] = rows[i]
    OBVIOUS
  <2>2. f \in [1..n -> 1..m]
    BY <2>1
  <2> HIDE DEF f
  <2>3. \A i, x \in 1..n : f[i] = f[x] => i = x
    <3> SUFFICES ASSUME NEW a \in 1..n, NEW b \in 1..n, f[a] = f[b] PROVE a = b
      OBVIOUS
    <3>1. rows[a] = rows[b]
      BY <2>1
    <3> QED
      BY <1>4, <3>1
  <2>4. \A i \in 1..n : f[i] # j
    BY <1>8, <1>9, <2>1
  <2>5. n < m
    <3>1. n \in Nat /\ m \in Nat
      BY <1>4, <1>6
    <3>2. Misses(f, n, m, j)
      BY <2>2, <2>3, <2>4, <3>1 DEF Misses
    <3> QED
      BY <3>2, OneIsMissed
  <2> QED
    BY <1>3, <1>6, <1>10, <2>5
<1>12. rows[i] \in Shown(view') \ Shown(view)
  BY <1>7, <1>11
<1>13. rows[i] \in 1..Len(series) /\ series[rows[i]] <= series[r] /\ series[r] <= series[rows[i]]
  BY <1>4, <1>6, <1>8, <1>9, <1>11
<1>14. series[rows[i]] = series[r]
  BY <1>6, <1>9, <1>13
<1> QED
  BY <1>3, <1>10, <1>12, <1>14 DEF n

\* A row that was shown stays shown, or gives way to one of its own second.
THEOREM ViewsCorrect == SeriesSpec => ViewsGrow
<1>1. SeriesSpec => [][ViewGrows]_seriesVars
  BY SeriesInvariance, SeriesNextGrows, PTL DEF SeriesSpec
<1> QED
  BY <1>1 DEF ViewsGrow, ViewGrows
=============================================================================
