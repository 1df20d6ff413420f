--------------------------- MODULE MemoryBackend ---------------------------
(***************************************************************************)
(* The in-process response cache, cache_backend.MemoryBackend: an ordered  *)
(* dict with a per-entry expiry, under one lock.  Each call reads the      *)
(* clock BEFORE it takes the lock; what it then does under the lock is     *)
(* pure dict work and one action here.  Threads and time act in between.   *)
(***************************************************************************)
EXTENDS CacheCalls, SequencesExt, FiniteSets

CONSTANTS
  Threads,
  Keys,      \* (table, key)
  Values,
  Maxsize,   \* 0 or less: unbounded
  MaxClock   \* bound: the monotonic clock stops here

ASSUME BackendAssumption ==
  /\ Maxsize \in Int
  /\ Miss \notin Values
  /\ MaxClock \in Nat

VARIABLES
  clock,   \* time.monotonic
  store,   \* the OrderedDict, least recently used entry first
  op,      \* [Threads -> the call that has read the clock and waits for the lock]
  result,  \* [Threads -> what the last get returned]
  since,   \* history: [Keys -> the keys used since this key was last used]
  latest   \* history: [Keys -> the value last set, as long as the key has an entry]

vars == <<clock, store, op, result, since, latest>>

Entry == [key: Keys, value: Values, expires: Nat]

\* A dict holds one entry of a key.
OneEach(s) == \A i, j \in 1..Len(s) : s[i].key = s[j].key => i = j

TypeOK ==
  /\ clock \in Nat
  /\ store \in Seq(Entry) /\ OneEach(store)
  /\ op \in [Threads -> Calls(Keys, Values)]
  /\ result \in [Threads -> Values \cup {Miss}]
  /\ since \in [Keys -> SUBSET Keys]
  /\ latest \in [Keys -> Values \cup {Miss}]

Init ==
  /\ clock = 0
  /\ store = <<>>
  /\ op = [t \in Threads |-> Idle]
  /\ result = [t \in Threads |-> Miss]
  /\ since = [k \in Keys |-> {}]
  /\ latest = [k \in Keys |-> Miss]

HasKey(s, k) == \E i \in 1..Len(s) : s[i].key = k
Place(s, k) == CHOOSE i \in 1..Len(s) : s[i].key = k
EntryOf(s, k) == s[Place(s, k)]
Delete(s, k) == IF HasKey(s, k) THEN RemoveAt(s, Place(s, k)) ELSE s

\* move_to_end, or a plain assignment: the entry is now the youngest.
PutLast(s, e) == Append(Delete(s, e.key), e)

\* while len > maxsize: popitem(last=False)
EvictIfNeeded(s) ==
  IF Maxsize > 0 /\ Len(s) > Maxsize
  THEN SubSeq(s, Len(s) - Maxsize + 1, Len(s))
  ELSE s

Used(k) == since' = [x \in Keys |-> IF x = k THEN {} ELSE since[x] \cup {k}]

\* set is the last value set under each key; it is forgotten with the entry.
Remember(set) == latest' = [k \in Keys |-> IF HasKey(store', k) THEN set[k] ELSE Miss]

\* get reads the clock ...
StartGet(t) ==
  /\ op[t] = Idle
  /\ \E k \in Keys : op' = [op EXCEPT ![t] = GetCall(k, clock)]
  /\ UNCHANGED <<clock, store, result, since, latest>>

Return(t, r) ==
  /\ op' = [op EXCEPT ![t] = Idle]
  /\ result' = [result EXCEPT ![t] = r]

\* ... and under the lock: a key that is not there,
GetAbsent(t) ==
  /\ op[t].kind = "get"
  /\ ~HasKey(store, op[t].key)
  /\ Return(t, Miss)
  /\ UNCHANGED <<clock, store, since, latest>>

\* an entry that has expired, which is deleted,
GetExpired(t) ==
  /\ op[t].kind = "get"
  /\ HasKey(store, op[t].key)
  /\ op[t].now >= EntryOf(store, op[t].key).expires
  /\ store' = Delete(store, op[t].key)
  /\ Return(t, Miss)
  /\ Remember(latest)
  /\ UNCHANGED <<clock, since>>

\* A fault: a hit leaves the entry where it is.
GetHitUntouched(t) ==
  /\ op[t].kind = "get"
  /\ HasKey(store, op[t].key)
  /\ op[t].now < EntryOf(store, op[t].key).expires
  /\ Return(t, EntryOf(store, op[t].key).value)
  /\ Used(op[t].key)
  /\ UNCHANGED <<clock, store, latest>>

\* and a hit, which makes the entry the youngest and returns a copy.
GetHit(t) ==
  /\ op[t].kind = "get"
  /\ HasKey(store, op[t].key)
  /\ op[t].now < EntryOf(store, op[t].key).expires
  /\ store' = PutLast(store, EntryOf(store, op[t].key))
  /\ Return(t, EntryOf(store, op[t].key).value)
  /\ Used(op[t].key)
  /\ UNCHANGED <<clock, latest>>

\* set reads the clock for the expiry (and copies the value) ...
StartSet(t) ==
  /\ op[t] = Idle
  /\ \E k \in Keys, v \in Values, ttl \in Ttls :
       op' = [op EXCEPT ![t] = SetCall(k, v, ttl, clock)]
  /\ UNCHANGED <<clock, store, result, since, latest>>

\* A fault: a negative TTL is not clamped.
EntrySetUnclamped(call) ==
  [key |-> call.key, value |-> call.value, expires |-> call.now + call.ttl]

EntrySet(call) ==
  [key |-> call.key, value |-> call.value, expires |-> call.now + Clamped(call.ttl)]

StoreSet(t, stored) ==
  /\ store' = stored
  /\ op' = [op EXCEPT ![t] = Idle]
  /\ Used(op[t].key)
  /\ Remember([latest EXCEPT ![op[t].key] = op[t].value])
  /\ UNCHANGED <<clock, result>>

\* A fault: a key that is there is only moved to the end.
FinishSetKeepsOld(t) ==
  /\ op[t].kind = "set"
  /\ StoreSet(t, EvictIfNeeded(PutLast(store,
       IF HasKey(store, op[t].key) THEN EntryOf(store, op[t].key) ELSE EntrySet(op[t]))))

\* A fault: room is made before the entry is stored.
FinishSetEvictsFirst(t) ==
  /\ op[t].kind = "set"
  /\ StoreSet(t, PutLast(EvictIfNeeded(store), EntrySet(op[t])))

\* ... and stores it under the lock.
FinishSet(t) ==
  /\ op[t].kind = "set"
  /\ StoreSet(t, EvictIfNeeded(PutLast(store, EntrySet(op[t]))))

Clear(t) ==
  /\ op[t] = Idle
  /\ store # <<>>
  /\ store' = <<>>
  /\ Remember(latest)
  /\ UNCHANGED <<clock, op, result, since>>

Tick ==
  /\ clock < MaxClock
  /\ clock' = clock + 1
  /\ UNCHANGED <<store, op, result, since, latest>>

Next ==
  \/ Tick
  \/ \E t \in Threads :
       \/ StartGet(t)
       \/ GetAbsent(t)
       \/ GetExpired(t)
       \/ GetHit(t)
       \/ StartSet(t)
       \/ FinishSet(t)
       \/ Clear(t)

Spec == Init /\ [][Next]_vars

-----------------------------------------------------------------------------

\* With a positive maxsize there are never more than maxsize entries at the end of a
\* call, whatever mix of hits, rewrites, expiries and new keys the callers make.
Bounded == Maxsize > 0 => Len(store) <= Maxsize

\* An entry makes room only after maxsize other keys have been used since its own
\* last use (a hit or a set); otherwise it goes only by expiry or by clear.
EvictsLeastRecentlyUsed ==
  [][\A k \in Keys :
       (HasKey(store, k) /\ ~HasKey(store', k)) =>
         \/ \E t \in Threads : GetExpired(t) /\ op[t].key = k
         \/ store' = <<>>
         \/ Maxsize > 0 /\ Cardinality(since'[k]) >= Maxsize]_vars

\* Callers cannot tell the backend from ResponseCache: whatever other threads set,
\* evict or clear between a get's look at the clock and its lock, a hit is the value
\* last set under the key, and an entry that has gone stays gone until it is set.
Promise == INSTANCE ResponseCache WITH cached <- latest

ImplementsResponseCache == Promise!Spec
=============================================================================
