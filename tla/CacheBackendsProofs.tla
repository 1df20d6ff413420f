-------------------------- MODULE CacheBackendsProofs --------------------------
(***************************************************************************)
(* Whichever backend a process is given, it keeps what is proved of it     *)
(* alone; and both backends implement the one protocol.                    *)
(***************************************************************************)
EXTENDS CacheBackends, MemoryBackendProofs, ClickHouseProofs

-----------------------------------------------------------------------------
(* The choice of the backend *)

BackendKnown == backend \in {"memory", "clickhouse_cache", "clickhouse_series"}

\* All three begin in their own initial states.
LEMMA BackendInitImplies == BackendInit => Init /\ ResponseInit /\ SeriesInit /\ BackendKnown
BY DEF BackendInit, BackendKnown, Chosen

\* A step of the process is a step of one, and a stutter of the others.
LEMMA BackendStepImplies ==
  [BackendNext]_backendVars =>
    [Next]_vars /\ [ResponseNext]_responseVars /\ [SeriesNext]_seriesVars /\ UNCHANGED backend
<1> SUFFICES ASSUME [BackendNext]_backendVars
             PROVE  [Next]_vars /\ [ResponseNext]_responseVars /\ [SeriesNext]_seriesVars
                    /\ UNCHANGED backend
  OBVIOUS
<1>1. CASE MemoryStep
  BY <1>1 DEF MemoryStep
<1>2. CASE ResponseStep
  BY <1>2 DEF ResponseStep
<1>3. CASE SeriesStep
  BY <1>3 DEF SeriesStep
<1>4. CASE UNCHANGED backendVars
  BY <1>4 DEF backendVars
<1> QED
  BY <1>1, <1>2, <1>3, <1>4 DEF BackendNext

\* A process runs one of the three, and the others stand still.
THEOREM EachBackendRuns == BackendSpec => Spec /\ ResponseSpec /\ SeriesSpec
BY BackendInitImplies, BackendStepImplies, PTL DEF BackendSpec, Spec, ResponseSpec, SeriesSpec

\* The name of the backend and the state of each keep their types.
THEOREM BackendTypeCorrect == BackendSpec => []BackendTypeOK
<1>1. BackendKnown /\ [BackendNext]_backendVars => BackendKnown'
  BY BackendStepImplies DEF BackendKnown
<1>2. BackendSpec => []BackendKnown
  BY <1>1, BackendInitImplies, PTL DEF BackendSpec
<1>3. BackendKnown /\ TypeOK /\ ResponseTypeOK /\ SeriesTypeOK => BackendTypeOK
  BY DEF BackendKnown, BackendTypeOK
<1> QED
  BY <1>2, <1>3, EachBackendRuns, TypeCorrect, ResponseTypeCorrect, SeriesTypeCorrect, PTL

\* A positive maxsize is never exceeded.
THEOREM BackendBounded == BackendSpec => []Bounded
BY EachBackendRuns, BoundedCorrect, PTL

\* Memory: an entry makes room only for maxsize younger ones.
THEOREM BackendEvicts == BackendSpec => EvictsLeastRecentlyUsed
BY EachBackendRuns, EvictsCorrect, PTL

\* Memory: a hit is the value last set, and what is gone stays gone until it is set.
THEOREM BackendRemembers == BackendSpec => ImplementsResponseCache
BY EachBackendRuns, ResponseCacheImplemented, PTL

\* ClickHouse: an older response comes back only past the expiry of all younger ones.
THEOREM BackendHits == BackendSpec => HitsGoBackOnlyPastExpiry
BY EachBackendRuns, HitsCorrect, PTL

\* ClickHouse: rows of the history that were shown stay shown.
THEOREM BackendViews == BackendSpec => ViewsGrow
BY EachBackendRuns, ViewsCorrect, PTL

-----------------------------------------------------------------------------
(* One protocol for both *)

\* What is left of a sequence was in it.
LEMMA LeftWithin ==
  ASSUME NEW s \in Seq(Entry), NEW t \in Seq(Entry), NEW g, LeftAt(t, s, g)
  PROVE  ToSet(t) \subseteq ToSet(s)
BY LenProperties DEF LeftAt, ToSet

\* What is taken out, put last or evicted leaves the entries as they were.
LEMMA EntriesWithin ==
  ASSUME NEW s \in Seq(Entry), OneEach(s), NEW k, NEW e \in Entry
  PROVE  /\ ToSet(Delete(s, k)) \subseteq ToSet(s)
         /\ ToSet(PutLast(s, e)) \subseteq ToSet(s) \cup {e}
         /\ ToSet(EvictIfNeeded(s)) \subseteq ToSet(s)
<1>1. ASSUME NEW x PROVE Delete(s, x) \in Seq(Entry) /\ ToSet(Delete(s, x)) \subseteq ToSet(s)
  <2>1. Delete(s, x) \in Seq(Entry) /\ \E g : LeftAt(Delete(s, x), s, g)
    BY DeleteLeaves
  <2> QED
    BY <2>1, LeftWithin
<1>2. ToSet(PutLast(s, e)) \subseteq ToSet(s) \cup {e}
  <2> DEFINE d == Delete(s, e.key)
  <2>1. d \in Seq(Entry) /\ ToSet(d) \subseteq ToSet(s)
    BY <1>1
  <2>2. PutLast(s, e) = Append(d, e)
    BY DEF PutLast
  <2> HIDE DEF d
  <2>3. ToSet(Append(d, e)) \subseteq ToSet(d) \cup {e}
    BY <2>1, AppendProperties, LenProperties DEF ToSet
  <2> QED
    BY <2>1, <2>2, <2>3
<1>3. ToSet(EvictIfNeeded(s)) \subseteq ToSet(s)
  <2>1. EvictIfNeeded(s) \in Seq(Entry) /\ \E g : LeftAt(EvictIfNeeded(s), s, g)
    BY EvictLeaves
  <2> QED
    BY <2>1, LeftWithin
<1> QED
  BY <1>1, <1>2, <1>3

\* A call under way did not begin in the future.
Begun == \A t \in Threads : op[t] # Idle => op[t].now <= clock

\* Calls begin at the clock, which only goes on.
LEMMA NextBegun == IInv /\ Begun /\ [Next]_vars => Begun'
<1> SUFFICES ASSUME IInv, Begun, [Next]_vars PROVE Begun'
  OBVIOUS
<1>1. clock \in Nat /\ op \in [Threads -> Calls(Keys, Values)]
  BY DEF IInv, TypeOK
<1>2. CASE Tick
  <2> SUFFICES ASSUME NEW t \in Threads, op'[t] # Idle PROVE op'[t].now <= clock'
    BY DEF Begun
  <2>1. op'[t] = op[t] /\ clock' = clock + 1 /\ op[t].now <= clock
    BY <1>2 DEF Tick, Begun
  <2>2. op[t].now \in Nat
    BY <1>1, <2>1 DEF Calls
  <2> QED
    BY <1>1, <2>1, <2>2
<1>3. ASSUME NEW t \in Threads, StartGet(t) \/ StartSet(t) PROVE Begun'
  BY <1>1, <1>3 DEF StartGet, StartSet, GetCall, SetCall, Begun
<1>4. ASSUME NEW t \in Threads, GetAbsent(t) \/ GetExpired(t) \/ GetHit(t) \/ FinishSet(t) PROVE Begun'
  BY <1>1, <1>4 DEF GetAbsent, GetExpired, GetHit, Return, FinishSet, StoreSet, Begun
<1>5. CASE (\E t \in Threads : Clear(t)) \/ UNCHANGED vars
  BY <1>5 DEF Clear, vars, Begun
<1> QED
  BY <1>2, <1>3, <1>4, <1>5 DEF Next

\* Every step of the dict is one of the protocol.
LEMMA MemoryStepAllowed ==
  IInv /\ Begun /\ [Next]_vars => [MemoryProtocol!Next]_<<clock, op, ToSet(store), result>>
<1> SUFFICES ASSUME IInv, Begun, [Next]_vars
             PROVE  [MemoryProtocol!Next]_<<clock, op, ToSet(store), result>>
  OBVIOUS
<1>0. clock \in Nat /\ store \in Seq(Entry) /\ OneEach(store)
  BY DEF IInv, TypeOK
<1>1. ASSUME NEW t \in Threads, StartGet(t) PROVE MemoryProtocol!Ask(t)
  BY <1>1 DEF StartGet, MemoryProtocol!Ask, MemoryProtocol!GetCall, MemoryProtocol!Idle, GetCall, Idle
<1>2. ASSUME NEW t \in Threads, StartSet(t) PROVE MemoryProtocol!Ask(t)
  BY <1>2 DEF StartSet, MemoryProtocol!Ask, MemoryProtocol!SetCall, MemoryProtocol!Idle, SetCall, Idle
<1>3. ASSUME NEW t \in Threads, GetAbsent(t) PROVE MemoryProtocol!Get(t)
  BY <1>3 DEF GetAbsent, Return, MemoryProtocol!Get, MemoryProtocol!Done, MemoryProtocol!Idle, Idle
<1>4. ASSUME NEW t \in Threads, GetExpired(t) PROVE MemoryProtocol!Get(t)
  <2>1. ToSet(store') \subseteq ToSet(store)
    <3>1. op[t].key \in Keys /\ HasKey(store, op[t].key)
      BY <1>4, OpFields DEF GetExpired, IInv
    <3>2. EntryOf(store, op[t].key) \in Entry
      BY <3>1, EntryOfKey DEF IInv
    <3> QED
      BY <1>0, <1>4, <3>2, EntriesWithin DEF GetExpired
  <2> QED
    BY <1>4, <2>1 DEF GetExpired, Return, MemoryProtocol!Get, MemoryProtocol!Done,
       MemoryProtocol!Idle, Idle
<1>5. ASSUME NEW t \in Threads, GetHit(t) PROVE MemoryProtocol!Get(t)
  <2> DEFINE e == EntryOf(store, op[t].key)
  <2>1. op[t].kind = "get" /\ op[t].key \in Keys /\ HasKey(store, op[t].key)
    BY <1>5, OpFields DEF GetHit, IInv
  <2>2. e \in Entry /\ e.key = op[t].key
    BY <2>1, EntryOfKey DEF IInv
  <2>3. e \in ToSet(store)
    BY <1>0, <2>1, PlaceOfKey DEF EntryOf, ToSet
  <2>4. ToSet(store') \subseteq ToSet(store)
    BY <1>0, <1>5, <2>2, <2>3, EntriesWithin DEF GetHit
  <2>5. op[t].now < e.expires + 0
    BY <1>5, <2>2 DEF GetHit, Entry
  <2>6. e.value \in MemoryProtocol!Hits(op[t].key, op[t].now)
    BY <2>2, <2>3, <2>5, Zenon DEF MemoryProtocol!Hits
  <2>7. UNCHANGED clock /\ op' = [op EXCEPT ![t] = Idle] /\ result' = [result EXCEPT ![t] = e.value]
    BY <1>5 DEF GetHit, Return
  <2> QED
    BY <2>1, <2>4, <2>6, <2>7 DEF MemoryProtocol!Get, MemoryProtocol!Done, MemoryProtocol!Idle, Idle
<1>6. ASSUME NEW t \in Threads, FinishSet(t) PROVE MemoryProtocol!Set(t)
  <2> DEFINE call == op[t]
             e == EntrySet(call)
  <2>1. /\ call.kind = "set" /\ call.key \in Keys /\ call.value \in Values /\ call.now \in Nat
        /\ call.now + Clamped(call.ttl) \in Nat
    BY <1>6, OpFields DEF FinishSet, IInv
  <2>2. e \in Entry /\ e = [key |-> call.key, value |-> [v \in Values |-> v][call.value],
                             expires |-> call.now + Clamped(call.ttl)]
    BY <2>1 DEF EntrySet, Entry
  <2>3. call.now \in call.now .. clock
    BY <1>0, <2>1 DEF Begun, Idle
  <2>4. ToSet(store') \subseteq ToSet(store) \cup {e}
    <3>1. PutLast(store, e) \in Seq(Entry) /\ OneEach(PutLast(store, e))
      BY <1>0, <2>2, PutLastProperties DEF PutsLast
    <3>2. ToSet(PutLast(store, e)) \subseteq ToSet(store) \cup {e}
      BY <1>0, <2>2, EntriesWithin
    <3>3. ToSet(EvictIfNeeded(PutLast(store, e))) \subseteq ToSet(PutLast(store, e))
      BY <2>2, <3>1, EntriesWithin
    <3>4. store' = EvictIfNeeded(PutLast(store, e))
      BY <1>6 DEF FinishSet, StoreSet
    <3> QED
      BY <3>2, <3>3, <3>4
  <2>5. MemoryProtocol!Clamped(call.ttl) = Clamped(call.ttl)
    BY DEF MemoryProtocol!Clamped, Clamped
  <2>6. op' = [op EXCEPT ![t] = Idle] /\ UNCHANGED <<clock, result>>
    BY <1>6 DEF FinishSet, StoreSet
  <2> HIDE DEF e
  <2> QED
    BY <2>1, <2>2, <2>3, <2>4, <2>5, <2>6 DEF MemoryProtocol!Set, MemoryProtocol!Done,
       MemoryProtocol!Idle, Idle
<1>7. ASSUME NEW t \in Threads, Clear(t) PROVE MemoryProtocol!Lose
  BY <1>7 DEF Clear, MemoryProtocol!Lose, ToSet
<1>8. CASE Tick
  BY <1>0, <1>8 DEF Tick, MemoryProtocol!Next, MemoryProtocol!Pass
<1>9. CASE UNCHANGED vars
  BY <1>9 DEF vars
<1> QED
  BY <1>1, <1>2, <1>3, <1>4, <1>5, <1>6, <1>7, <1>8, <1>9 DEF Next, MemoryProtocol!Next

\* A hit of the dict is a value set under the key, whose TTL had not run out when the
\* get began.
THEOREM MemoryProtocolKept == Spec => MemoryProtocol!Spec
<1>1. Init => Begun /\ MemoryProtocol!Init
  BY DEF Init, Begun, Idle, ToSet, MemoryProtocol!Init, MemoryProtocol!Idle
<1>2. Spec => [](IInv /\ Begun)
  BY <1>1, Invariance, NextBegun, PTL DEF Spec
<1>3. Spec => [][MemoryProtocol!Next]_<<clock, op, ToSet(store), result>>
  BY <1>2, MemoryStepAllowed, PTL DEF Spec
<1> QED
  BY <1>1, <1>3, PTL DEF Spec, MemoryProtocol!Spec, MemoryProtocol!protocolVars

\* What a hit is, whichever backend a process is given: set under that key by some call,
\* read back as the backend does, and within its TTL when the get began.
THEOREM ProtocolKept == BackendSpec => ImplementsCacheProtocol
<1>1. BackendSpec => MemoryProtocol!Spec
  BY EachBackendRuns, MemoryProtocolKept, PTL
<1>2. BackendSpec => ResponseProtocol!Spec
  BY EachBackendRuns, ResponseProtocolKept, PTL
<1> QED
  BY <1>1, <1>2 DEF ImplementsCacheProtocol
=============================================================================
