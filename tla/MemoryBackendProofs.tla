------------------------- MODULE MemoryBackendProofs -------------------------
(***************************************************************************)
(* Proofs, for any number of threads and keys, any limit and any clock, of *)
(* the properties of MemoryBackend.                                        *)
(***************************************************************************)
EXTENDS MemoryBackend, SequenceTheorems, FiniteSetTheorems, TLAPS

-----------------------------------------------------------------------------
(* The dict as a sequence *)

\* The entries of a sequence that are left, in their order, are those at g.
LeftAt(t, s, g) ==
  /\ g \in [1..Len(t) -> 1..Len(s)]
  /\ \A i, j \in 1..Len(t) : i < j => g[i] < g[j]
  /\ \A i \in 1..Len(t) : t[i] = s[g[i]]

\* The place of a key.
LEMMA PlaceOfKey ==
  ASSUME NEW s \in Seq(Entry), NEW k, HasKey(s, k)
  PROVE  Place(s, k) \in 1..Len(s) /\ s[Place(s, k)].key = k
BY DEF HasKey, Place

\* Deleting a key takes out its one entry and moves no other.
LEMMA DeleteLeaves ==
  ASSUME NEW s \in Seq(Entry), OneEach(s), NEW k
  PROVE  /\ Delete(s, k) \in Seq(Entry)
         /\ Len(Delete(s, k)) = IF HasKey(s, k) THEN Len(s) - 1 ELSE Len(s)
         /\ \E g : LeftAt(Delete(s, k), s, g)
         /\ ~HasKey(Delete(s, k), k)
         /\ \A x : x # k => (HasKey(Delete(s, k), x) <=> HasKey(s, x))
<1>1. CASE ~HasKey(s, k)
  <2>1. Delete(s, k) = s
    BY <1>1 DEF Delete
  <2>2. LeftAt(s, s, [i \in 1..Len(s) |-> i])
    BY DEF LeftAt
  <2> QED
    BY <1>1, <2>1, <2>2
<1>2. CASE HasKey(s, k)
  <2> DEFINE p == Place(s, k)
             d == Delete(s, k)
             g == [i \in 1..Len(s) - 1 |-> IF i < p THEN i ELSE i + 1]
  <2>1. p \in 1..Len(s) /\ s[p].key = k
    BY <1>2, PlaceOfKey
  <2>2. d = SubSeq(s, 1, p - 1) \o SubSeq(s, p + 1, Len(s))
    BY <1>2 DEF Delete, RemoveAt
  <2>3. Len(s) \in Nat /\ \A i \in 1..Len(s) : s[i] \in Entry
    BY LenProperties
  <2> HIDE DEF p, d
  <2>4. /\ SubSeq(s, 1, p - 1) \in Seq(Entry)
        /\ Len(SubSeq(s, 1, p - 1)) = p - 1
        /\ \A i \in 1..p - 1 : SubSeq(s, 1, p - 1)[i] = s[i]
    <3>1. \A i \in 1..p - 1 : s[i] \in Entry
      BY <2>1, <2>3
    <3> QED
      BY <2>1, <2>3, <3>1, SubSeqProperties
  <2>5. /\ SubSeq(s, p + 1, Len(s)) \in Seq(Entry)
        /\ Len(SubSeq(s, p + 1, Len(s))) = Len(s) - p
        /\ \A i \in 1..Len(s) - p : SubSeq(s, p + 1, Len(s))[i] = s[p + i]
    <3>1. \A i \in p + 1..Len(s) : s[i] \in Entry
      BY <2>1, <2>3
    <3> QED
      BY <2>1, <2>3, <3>1, SubSeqProperties
  <2>6. /\ d \in Seq(Entry)
        /\ Len(d) = Len(s) - 1
        /\ \A i \in 1..Len(d) : d[i] = s[g[i]]
    <3>1. /\ d \in Seq(Entry)
          /\ Len(d) = (p - 1) + (Len(s) - p)
          /\ \A i \in 1..(p - 1) + (Len(s) - p) :
               d[i] = IF i <= p - 1 THEN SubSeq(s, 1, p - 1)[i]
                      ELSE SubSeq(s, p + 1, Len(s))[i - (p - 1)]
      BY <2>2, <2>4, <2>5, ConcatProperties
    <3>2. Len(d) = Len(s) - 1
      BY <2>1, <2>3, <3>1
    <3>3. ASSUME NEW i \in 1..Len(d) PROVE d[i] = s[g[i]]
      <4>1. CASE i < p
        BY <2>1, <2>3, <2>4, <3>1, <3>2, <4>1
      <4>2. CASE i >= p
        <5>1. d[i] = SubSeq(s, p + 1, Len(s))[i - (p - 1)]
          BY <2>1, <2>3, <3>1, <3>2, <4>2
        <5>2. i - (p - 1) \in 1..Len(s) - p /\ p + (i - (p - 1)) = i + 1
          BY <2>1, <2>3, <3>2, <4>2
        <5> QED
          BY <2>1, <2>3, <2>5, <3>2, <4>2, <5>1, <5>2
      <4> QED
        BY <2>1, <2>3, <3>2, <4>1, <4>2
    <3> QED
      BY <3>1, <3>2, <3>3
  <2>7. LeftAt(d, s, g)
    BY <2>1, <2>3, <2>6 DEF LeftAt
  <2>8. \A i \in 1..Len(d) : g[i] \in 1..Len(s) /\ g[i] # p
    BY <2>1, <2>3, <2>6
  <2>9. ~HasKey(d, k)
    BY <2>1, <2>6, <2>8 DEF HasKey, OneEach
  <2>10. ASSUME NEW x, x # k PROVE HasKey(d, x) <=> HasKey(s, x)
    <3>1. HasKey(d, x) => HasKey(s, x)
      BY <2>6, <2>8 DEF HasKey
    <3>2. ASSUME NEW i \in 1..Len(s), s[i].key = x PROVE HasKey(d, x)
      <4>1. i # p
        BY <2>1, <2>10, <3>2
      <4>2. CASE i < p
        <5>1. i \in 1..Len(d) /\ g[i] = i
          BY <2>1, <2>3, <2>6, <4>2
        <5> QED
          BY <2>6, <3>2, <5>1 DEF HasKey
      <4>3. CASE i > p
        <5>1. i - 1 \in 1..Len(d) /\ g[i - 1] = i
          BY <2>1, <2>3, <2>6, <4>3
        <5> QED
          BY <2>6, <3>2, <5>1 DEF HasKey
      <4> QED
        BY <2>1, <2>3, <4>1, <4>2, <4>3
    <3> QED
      BY <3>1, <3>2 DEF HasKey
  <2> QED
    BY <1>2, <2>6, <2>7, <2>9, <2>10 DEF d
<1> QED
  BY <1>1, <1>2

\* What a sequence of entries may be asked: is each key less recently used than those
\* after it, by the account S of what has been used since; are the values those of f.
Recent(s, S) == \A i, j \in 1..Len(s) : i < j => s[j].key \in S[s[i].key]
Matches(s, f) == \A i \in 1..Len(s) : f[s[i].key] = s[i].value

\* All of it survives when entries are taken out.
LEMMA LeftKeeps ==
  ASSUME NEW s \in Seq(Entry), NEW t \in Seq(Entry), NEW g, LeftAt(t, s, g)
  PROVE  /\ OneEach(s) => OneEach(t)
         /\ \A S : Recent(s, S) => Recent(t, S)
         /\ \A f : Matches(s, f) => Matches(t, f)
         /\ \A k : HasKey(t, k) => HasKey(s, k)
<1>1. /\ Len(s) \in Nat /\ Len(t) \in Nat
      /\ \A i \in 1..Len(t) : g[i] \in 1..Len(s) /\ t[i] = s[g[i]]
      /\ \A i, j \in 1..Len(t) : i < j => g[i] < g[j]
  BY LenProperties DEF LeftAt
<1>2. \A i, j \in 1..Len(t) : g[i] = g[j] => i = j
  BY <1>1
<1>3. OneEach(s) => OneEach(t)
  BY <1>1, <1>2 DEF OneEach
<1>4. ASSUME NEW S, Recent(s, S) PROVE Recent(t, S)
  BY <1>1, <1>4 DEF Recent
<1>5. ASSUME NEW f, Matches(s, f) PROVE Matches(t, f)
  BY <1>1, <1>5 DEF Matches
<1>6. ASSUME NEW k, HasKey(t, k) PROVE HasKey(s, k)
  BY <1>1, <1>6 DEF HasKey
<1> QED
  BY <1>3, <1>4, <1>5, <1>6

\* e has become the youngest entry of s, in t: what of the above carries over.
PutsLast(t, s, e) ==
  /\ t \in Seq(Entry)
  /\ OneEach(t)
  /\ Len(t) = IF HasKey(s, e.key) THEN Len(s) ELSE Len(s) + 1
  /\ \A S, T : /\ Recent(s, S)
               /\ \A k \in Keys : k # e.key => S[k] \cup {e.key} \subseteq T[k]
               => Recent(t, T)
  /\ \A f, h : /\ Matches(s, f)
               /\ \A k \in Keys : h[k] = IF k = e.key THEN e.value ELSE f[k]
               => Matches(t, h)
  /\ \A k : HasKey(t, k) <=> k = e.key \/ HasKey(s, k)

\* What PutLast does to an account of keys and values that fits the dict.
LEMMA PutLastProperties ==
  ASSUME NEW s \in Seq(Entry), OneEach(s), NEW e \in Entry
  PROVE  PutsLast(PutLast(s, e), s, e)
<1> DEFINE d == Delete(s, e.key)
           t == PutLast(s, e)
<1>1. /\ d \in Seq(Entry)
      /\ Len(d) = IF HasKey(s, e.key) THEN Len(s) - 1 ELSE Len(s)
      /\ \E g : LeftAt(d, s, g)
      /\ ~HasKey(d, e.key)
      /\ \A k : k # e.key => (HasKey(d, k) <=> HasKey(s, k))
  BY DeleteLeaves
<1>2. /\ OneEach(d)
      /\ \A S : Recent(s, S) => Recent(d, S)
      /\ \A f : Matches(s, f) => Matches(d, f)
  BY <1>1, LeftKeeps
<1>3. t = Append(d, e)
  BY DEF PutLast
<1> HIDE DEF d, t
<1>4. /\ t \in Seq(Entry)
      /\ Len(d) \in Nat /\ Len(s) \in Nat /\ Len(t) = Len(d) + 1
      /\ \A i \in 1..Len(d) : t[i] = d[i] /\ d[i] \in Entry
      /\ t[Len(t)] = e
  BY <1>1, <1>3, AppendProperties, LenProperties
<1>5. \A i \in 1..Len(t) : i \in 1..Len(d) \/ i = Len(t)
  BY <1>4
<1>6. \A i \in 1..Len(d) : d[i].key # e.key /\ d[i].key \in Keys
  BY <1>1, <1>4 DEF HasKey, Entry
<1>7. OneEach(t)
  BY <1>2, <1>4, <1>5, <1>6 DEF OneEach
<1>8. Len(t) = IF HasKey(s, e.key) THEN Len(s) ELSE Len(s) + 1
  BY <1>1, <1>4
<1>9. ASSUME NEW S, NEW T, Recent(s, S),
             \A k \in Keys : k # e.key => S[k] \cup {e.key} \subseteq T[k]
      PROVE  Recent(t, T)
  <2> SUFFICES ASSUME NEW i \in 1..Len(t), NEW j \in 1..Len(t), i < j
               PROVE  t[j].key \in T[t[i].key]
    BY DEF Recent
  <2>1. i \in 1..Len(d) /\ t[i] = d[i]
    BY <1>4, <1>5
  <2>2. S[d[i].key] \cup {e.key} \subseteq T[d[i].key]
    BY <1>6, <1>9, <2>1
  <2>3. CASE j \in 1..Len(d)
    <3>1. t[j] = d[j] /\ d[j].key \in S[d[i].key]
      BY <1>2, <1>4, <1>9, <2>1, <2>3 DEF Recent
    <3> QED
      BY <2>1, <2>2, <3>1
  <2>4. CASE j = Len(t)
    BY <1>4, <2>1, <2>2, <2>4
  <2> QED
    BY <1>5, <2>3, <2>4
<1>10. ASSUME NEW f, NEW h, Matches(s, f),
              \A k \in Keys : h[k] = IF k = e.key THEN e.value ELSE f[k]
       PROVE  Matches(t, h)
  <2> SUFFICES ASSUME NEW i \in 1..Len(t) PROVE h[t[i].key] = t[i].value
    BY DEF Matches
  <2>1. CASE i \in 1..Len(d)
    BY <1>2, <1>4, <1>6, <1>10, <2>1 DEF Matches
  <2>2. CASE i = Len(t)
    BY <1>4, <1>10, <2>2 DEF Entry
  <2> QED
    BY <1>5, <2>1, <2>2
<1>11. ASSUME NEW k PROVE HasKey(t, k) <=> k = e.key \/ HasKey(s, k)
  <2>1. HasKey(t, k) <=> k = e.key \/ HasKey(d, k)
    <3>1. Len(t) \in 1..Len(t)
      BY <1>4
    <3> QED
      BY <1>4, <1>5, <3>1 DEF HasKey
  <2> QED
    BY <1>1, <2>1
<1>12. \A S, T : /\ Recent(s, S)
                 /\ \A k \in Keys : k # e.key => S[k] \cup {e.key} \subseteq T[k]
                 => Recent(t, T)
  BY <1>9
<1>13. \A f, h : /\ Matches(s, f)
                 /\ \A k \in Keys : h[k] = IF k = e.key THEN e.value ELSE f[k]
                 => Matches(t, h)
  BY <1>10
<1> QED
  BY <1>4, <1>7, <1>8, <1>11, <1>12, <1>13, Zenon DEF t, PutsLast

\* Eviction takes from the front as many as are too many.
LEMMA EvictLeaves ==
  ASSUME NEW s \in Seq(Entry)
  PROVE  /\ EvictIfNeeded(s) \in Seq(Entry)
         /\ \E g : LeftAt(EvictIfNeeded(s), s, g)
         /\ Maxsize > 0 => Len(EvictIfNeeded(s)) <= Maxsize
         /\ \A i \in 1..Len(s) : (Maxsize > 0 => i > Len(s) - Maxsize) => HasKey(EvictIfNeeded(s), s[i].key)
<1>1. Len(s) \in Nat /\ \A i \in 1..Len(s) : s[i] \in Entry
  BY LenProperties
<1>2. CASE Maxsize > 0 /\ Len(s) > Maxsize
  <2> DEFINE n == Len(s) - Maxsize
             t == EvictIfNeeded(s)
             g == [i \in 1..Maxsize |-> n + i]
  <2>1. t = SubSeq(s, n + 1, Len(s))
    BY <1>2 DEF EvictIfNeeded
  <2>2. n \in Nat /\ n + 1 \in Int /\ n + 1 <= Len(s)
    BY <1>1, <1>2, BackendAssumption
  <2>3. \A i \in n + 1..Len(s) : s[i] \in Entry
    BY <1>1, <2>2
  <2> HIDE DEF t, n
  <2>4. /\ t \in Seq(Entry)
        /\ Len(t) = Len(s) - (n + 1) + 1
        /\ \A i \in 1..Len(s) - (n + 1) + 1 : t[i] = s[(n + 1) + i - 1]
    BY <1>1, <2>1, <2>2, <2>3, SubSeqProperties
  <2>5. /\ Len(t) = Maxsize
        /\ \A i \in 1..Maxsize : t[i] = s[n + i] /\ n + i \in 1..Len(s)
    BY <1>1, <1>2, <2>2, <2>4, BackendAssumption DEF n
  <2>6. LeftAt(t, s, g)
    BY <1>2, <2>2, <2>5, BackendAssumption DEF LeftAt
  <2>7. ASSUME NEW i \in 1..Len(s), i > n PROVE HasKey(t, s[i].key)
    <3>1. i - n \in 1..Maxsize /\ n + (i - n) = i
      BY <1>1, <2>2, <2>7, BackendAssumption DEF n
    <3> QED
      BY <2>5, <3>1 DEF HasKey
  <2> QED
    BY <1>2, <2>4, <2>5, <2>6, <2>7, BackendAssumption DEF t, n
<1>3. CASE ~(Maxsize > 0 /\ Len(s) > Maxsize)
  <2>1. EvictIfNeeded(s) = s
    BY <1>3 DEF EvictIfNeeded
  <2>2. LeftAt(s, s, [i \in 1..Len(s) |-> i])
    BY DEF LeftAt
  <2> QED
    BY <1>1, <1>3, <2>1, <2>2, BackendAssumption DEF HasKey
<1> QED
  BY <1>2, <1>3

-----------------------------------------------------------------------------
(* The invariant *)

\* since is the account of what has been used since each key was.
FiniteSince == \A k \in Keys : IsFiniteSet(since[k])
Recency == Recent(store, since) /\ FiniteSince

\* latest is what the entries hold.
Remembers ==
  /\ Matches(store, latest)
  /\ \A k \in Keys : latest[k] # Miss => HasKey(store, k)

\* The inductive invariant.
IInv == TypeOK /\ Bounded /\ Recency /\ Remembers

USE BackendAssumption

\* What a thread waits to do.
LEMMA OpFields ==
  ASSUME TypeOK, NEW t \in Threads
  PROVE  /\ op[t].kind = "get" => op[t].key \in Keys /\ op[t].now \in Nat
         /\ op[t].kind = "set" => /\ op[t].key \in Keys /\ op[t].value \in Values
                                  /\ op[t].ttl \in Ttls /\ op[t].now \in Nat
                                  /\ op[t].now + Clamped(op[t].ttl) \in Nat
<1>1. op[t] \in Calls(Keys, Values)
  BY DEF TypeOK
<1>2. \A n \in Nat, ttl \in Ttls : n + Clamped(ttl) \in Nat
  BY CallAssumption DEF Clamped
<1>3. op[t].kind = "set" => op[t] \in [kind: {"set"}, key: Keys, value: Values, ttl: Ttls, now: Nat]
  BY <1>1 DEF Calls, Idle
<1>4. op[t].kind = "get" => op[t] \in [kind: {"get"}, key: Keys, now: Nat]
  BY <1>1 DEF Calls, Idle
<1> QED
  BY <1>2, <1>3, <1>4

\* The entry of a key that is there.
LEMMA EntryOfKey ==
  ASSUME TypeOK, NEW k \in Keys, HasKey(store, k)
  PROVE  /\ EntryOf(store, k) \in Entry /\ EntryOf(store, k).key = k
         /\ EntryOf(store, k).value \in Values
         /\ Matches(store, latest) => latest[k] = EntryOf(store, k).value
<1>1. Place(store, k) \in 1..Len(store) /\ store[Place(store, k)].key = k
  BY PlaceOfKey DEF TypeOK
<1>2. store[Place(store, k)] \in Entry
  BY <1>1, LenProperties DEF TypeOK
<1> QED
  BY <1>1, <1>2 DEF EntryOf, Entry, Matches

\* Entries go: by expiry, or by clear.
LEMMA ShrinkKeeps ==
  ASSUME IInv, store' \in Seq(Entry), NEW g, LeftAt(store', store, g),
         Len(store') <= Len(store), UNCHANGED since, Remember(latest)
  PROVE  /\ latest' \in [Keys -> Values \cup {Miss}]
         /\ OneEach(store') /\ Bounded' /\ Recency' /\ Remembers'
<1>1. /\ OneEach(store') /\ Recent(store', since) /\ Matches(store', latest)
      /\ Len(store) \in Nat /\ Len(store') \in Nat
  BY LeftKeeps, LenProperties DEF IInv, TypeOK, Recency, Remembers
<1>2. latest' = [k \in Keys |-> IF HasKey(store', k) THEN latest[k] ELSE Miss]
  BY DEF Remember
<1>3. latest' \in [Keys -> Values \cup {Miss}]
  BY <1>2 DEF IInv, TypeOK
<1>4. Bounded'
  BY <1>1 DEF IInv, Bounded
<1>5. Recency'
  BY <1>1 DEF IInv, Recency, FiniteSince, Recent
<1>6. Matches(store', latest')
  <2> SUFFICES ASSUME NEW i \in 1..Len(store') PROVE latest'[store'[i].key] = store'[i].value
    BY DEF Matches
  <2>1. store'[i] \in Entry
    BY LenProperties
  <2>2. store'[i].key \in Keys /\ HasKey(store', store'[i].key)
    BY <2>1 DEF Entry, HasKey
  <2> QED
    BY <1>1, <1>2, <2>2 DEF Matches
<1>7. Remembers'
  BY <1>2, <1>6 DEF Remembers, Matches, HasKey
<1> QED
  BY <1>1, <1>3, <1>4, <1>5, <1>7

\* What using a key does to the account.
LEMMA UsedProperties ==
  ASSUME TypeOK, Recency, NEW k \in Keys, Used(k)
  PROVE  /\ since' \in [Keys -> SUBSET Keys]
         /\ FiniteSince'
         /\ \A x \in Keys : x # k => since[x] \cup {k} \subseteq since'[x]
<1>1. since' = [x \in Keys |-> IF x = k THEN {} ELSE since[x] \cup {k}]
  BY DEF Used
<1>2. ASSUME NEW x \in Keys PROVE IsFiniteSet(since'[x])
  <2>1. IsFiniteSet(since[x]) /\ IsFiniteSet({})
    BY FS_EmptySet DEF Recency, FiniteSince
  <2>2. IsFiniteSet(since[x] \cup {k})
    BY <2>1, FS_AddElement
  <2> QED
    BY <1>1, <2>1, <2>2
<1> QED
  BY <1>1, <1>2 DEF TypeOK, FiniteSince

-----------------------------------------------------------------------------
(* The steps *)

\* The dict begins empty.
LEMMA InitHolds == Init => IInv
<1> SUFFICES ASSUME Init PROVE IInv
  OBVIOUS
<1>1. store = <<>> /\ store \in Seq(Entry) /\ Len(store) = 0
  BY DEF Init
<1>2. op \in [Threads -> Calls(Keys, Values)] /\ OneEach(store)
  BY <1>1 DEF Init, Calls, OneEach
<1>3. TypeOK
  BY <1>1, <1>2 DEF Init, TypeOK
<1>4. Bounded
  BY <1>1 DEF Bounded
<1>5. Recency
  BY <1>1, FS_EmptySet DEF Init, Recency, Recent, FiniteSince
<1>6. Remembers
  BY <1>1 DEF Init, Remembers, Matches
<1> QED
  BY <1>3, <1>4, <1>5, <1>6 DEF IInv

\* Nothing that the invariant is about but the calls and the clock has changed.
LEMMA DictUntouched ==
  ASSUME IInv, UNCHANGED <<store, since, latest>>,
         clock' \in Nat, op' \in [Threads -> Calls(Keys, Values)], result' \in [Threads -> Values \cup {Miss}]
  PROVE  IInv'
BY DEF IInv, TypeOK, OneEach, Bounded, Recency, Recent, FiniteSince, Remembers, Matches, HasKey

\* A call waits for the lock.
LEMMA StartKeeps ==
  ASSUME IInv, NEW t \in Threads, StartGet(t) \/ StartSet(t)
  PROVE  IInv'
<1>1. clock \in Nat /\ clock' = clock /\ result' = result /\ UNCHANGED <<store, since, latest>>
  BY DEF IInv, TypeOK, StartGet, StartSet
<1>2. CASE StartGet(t)
  <2>1. PICK k \in Keys : op' = [op EXCEPT ![t] = GetCall(k, clock)]
    BY <1>2 DEF StartGet
  <2>2. GetCall(k, clock) \in Calls(Keys, Values)
    BY <1>1 DEF Calls, GetCall
  <2> QED
    BY <1>1, <2>1, <2>2, DictUntouched DEF IInv, TypeOK
<1>3. CASE StartSet(t)
  <2>1. PICK k \in Keys, v \in Values, ttl \in Ttls : op' = [op EXCEPT ![t] = SetCall(k, v, ttl, clock)]
    BY <1>3 DEF StartSet
  <2>2. SetCall(k, v, ttl, clock) \in Calls(Keys, Values)
    BY <1>1 DEF Calls, SetCall
  <2> QED
    BY <1>1, <2>1, <2>2, DictUntouched DEF IInv, TypeOK
<1> QED
  BY <1>2, <1>3

\* The end of a get.
LEMMA ReturnTypes ==
  ASSUME TypeOK, NEW t \in Threads, NEW r \in Values \cup {Miss}, Return(t, r)
  PROVE  /\ op' \in [Threads -> Calls(Keys, Values)]
         /\ result' \in [Threads -> Values \cup {Miss}]
<1>1. Idle \in Calls(Keys, Values)
  BY DEF Calls
<1> QED
  BY <1>1 DEF TypeOK, Return

\* A miss changes nothing but the answer.
LEMMA GetAbsentKeeps ==
  ASSUME IInv, NEW t \in Threads, GetAbsent(t)
  PROVE  IInv'
BY ReturnTypes, DictUntouched DEF IInv, TypeOK, GetAbsent

\* A get of an expired entry takes it out.
LEMMA GetExpiredKeeps ==
  ASSUME IInv, NEW t \in Threads, GetExpired(t)
  PROVE  IInv'
<1>1. op' \in [Threads -> Calls(Keys, Values)] /\ result' \in [Threads -> Values \cup {Miss}]
  BY ReturnTypes DEF IInv, GetExpired
<1>2. /\ store' = Delete(store, op[t].key) /\ store \in Seq(Entry) /\ OneEach(store)
      /\ UNCHANGED since /\ Remember(latest)
  BY DEF GetExpired, IInv, TypeOK
<1>3. /\ store' \in Seq(Entry)
      /\ Len(store') = IF HasKey(store, op[t].key) THEN Len(store) - 1 ELSE Len(store)
      /\ \E g : LeftAt(store', store, g)
  BY <1>2, DeleteLeaves
<1>4. Len(store') <= Len(store)
  BY <1>2, <1>3, LenProperties
<1>5. /\ latest' \in [Keys -> Values \cup {Miss}]
      /\ OneEach(store') /\ Bounded' /\ Recency' /\ Remembers'
  BY <1>2, <1>3, <1>4, ShrinkKeeps
<1> QED
  BY <1>1, <1>3, <1>5 DEF IInv, TypeOK, GetExpired

\* clear takes all entries out.
LEMMA ClearKeeps ==
  ASSUME IInv, NEW t \in Threads, Clear(t)
  PROVE  IInv'
<1>1. store' = <<>> /\ store' \in Seq(Entry) /\ Len(store') = 0
  BY DEF Clear
<1>2. LeftAt(store', store, [i \in {} |-> 1])
  BY <1>1 DEF LeftAt
<1>3. Len(store') <= Len(store)
  BY <1>1, LenProperties DEF IInv, TypeOK
<1>4. /\ latest' \in [Keys -> Values \cup {Miss}]
      /\ OneEach(store') /\ Bounded' /\ Recency' /\ Remembers'
  BY <1>1, <1>2, <1>3, ShrinkKeeps DEF Clear
<1> QED
  BY <1>1, <1>4 DEF IInv, TypeOK, Clear

\* A hit moves its entry to the end: the key is now the last used.
LEMMA GetHitKeeps ==
  ASSUME IInv, NEW t \in Threads, GetHit(t)
  PROVE  IInv'
<1> DEFINE k == op[t].key
           e == EntryOf(store, k)
<1>1. k \in Keys /\ HasKey(store, k)
  BY OpFields DEF GetHit, IInv
<1>2. e \in Entry /\ e.key = k /\ e.value \in Values /\ latest[k] = e.value
  BY <1>1, EntryOfKey DEF IInv, Remembers
<1>3. op' \in [Threads -> Calls(Keys, Values)] /\ result' \in [Threads -> Values \cup {Miss}]
  BY <1>2, ReturnTypes DEF IInv, GetHit
<1>4. store' = PutLast(store, e) /\ Used(k) /\ clock' = clock /\ latest' = latest
  BY DEF GetHit
<1> HIDE DEF k, e
<1>5. store \in Seq(Entry) /\ OneEach(store) /\ Recent(store, since) /\ Matches(store, latest)
  BY DEF IInv, TypeOK, Recency, Remembers
<1>6. PutsLast(store', store, e)
  BY <1>2, <1>4, <1>5, PutLastProperties
<1>7. /\ since' \in [Keys -> SUBSET Keys] /\ FiniteSince'
      /\ \A x \in Keys : x # k => since[x] \cup {k} \subseteq since'[x]
  BY <1>1, <1>4, UsedProperties DEF IInv
<1>8. TypeOK'
  BY <1>3, <1>4, <1>6, <1>7 DEF IInv, TypeOK, PutsLast
<1>9. Bounded'
  BY <1>1, <1>2, <1>6 DEF IInv, Bounded, PutsLast
<1>10. Recent(store', since')
  BY <1>2, <1>5, <1>6, <1>7 DEF PutsLast
<1>11. Matches(store', latest')
  BY <1>2, <1>4, <1>5, <1>6 DEF PutsLast
<1>12. Recency'
  BY <1>7, <1>10 DEF Recency, Recent
<1>13. \A x \in Keys : latest'[x] # Miss => HasKey(store', x)
  BY <1>4, <1>6 DEF IInv, Remembers, PutsLast
<1>14. Remembers'
  BY <1>11, <1>13 DEF Remembers, Matches, HasKey
<1> QED
  BY <1>8, <1>9, <1>12, <1>14 DEF IInv

\* What a set has put last, before it makes room.
Arrived(t) ==
  PutLast(store, EntrySet(op[t]))

\* The dict of a set before eviction: the new entry is last, the others as before.
LEMMA ArrivedProperties ==
  ASSUME IInv, NEW t \in Threads, FinishSet(t)
  PROVE  /\ op[t].key \in Keys /\ op[t].value \in Values
         /\ Arrived(t) \in Seq(Entry) /\ OneEach(Arrived(t))
         /\ Recent(Arrived(t), since')
         /\ Matches(Arrived(t), [latest EXCEPT ![op[t].key] = op[t].value])
         /\ \A x : HasKey(store, x) => HasKey(Arrived(t), x)
         /\ HasKey(Arrived(t), op[t].key)
         /\ store' = EvictIfNeeded(Arrived(t))
         /\ since' \in [Keys -> SUBSET Keys] /\ FiniteSince'
<1> DEFINE k == op[t].key
           v == op[t].value
           e == EntrySet(op[t])
           u == Arrived(t)
           f == [latest EXCEPT ![k] = v]
<1>1. k \in Keys /\ v \in Values /\ op[t].now + Clamped(op[t].ttl) \in Nat
  BY OpFields DEF IInv, FinishSet
<1>2. e \in Entry /\ e.key = k /\ e.value = v
  BY <1>1 DEF Entry, EntrySet
<1>3. u = PutLast(store, e) /\ Used(k) /\ store' = EvictIfNeeded(u)
  BY DEF FinishSet, StoreSet, Arrived
<1>4. store \in Seq(Entry) /\ OneEach(store) /\ Recent(store, since) /\ Matches(store, latest)
  BY DEF IInv, TypeOK, Recency, Remembers
<1>5. /\ since' \in [Keys -> SUBSET Keys] /\ FiniteSince'
      /\ \A x \in Keys : x # k => since[x] \cup {k} \subseteq since'[x]
  BY <1>1, <1>3, UsedProperties DEF IInv
<1>6. \A x \in Keys : f[x] = IF x = k THEN v ELSE latest[x]
  BY DEF IInv, TypeOK
<1> HIDE DEF k, v, e, u, f
<1>7. PutsLast(u, store, e)
  BY <1>2, <1>3, <1>4, PutLastProperties
<1>8. Recent(u, since')
  BY <1>2, <1>4, <1>5, <1>7 DEF PutsLast
<1>9. Matches(u, f)
  BY <1>2, <1>4, <1>6, <1>7 DEF PutsLast
<1> QED
  BY <1>1, <1>2, <1>3, <1>5, <1>7, <1>8, <1>9 DEF k, v, u, f, PutsLast

\* A set, with the eviction that follows it, keeps the invariant.
LEMMA FinishSetKeeps ==
  ASSUME IInv, NEW t \in Threads, FinishSet(t)
  PROVE  IInv'
<1> DEFINE u == Arrived(t)
           f == [latest EXCEPT ![op[t].key] = op[t].value]
<1>1. /\ u \in Seq(Entry) /\ OneEach(u) /\ Recent(u, since') /\ Matches(u, f)
      /\ store' = EvictIfNeeded(u)
      /\ since' \in [Keys -> SUBSET Keys] /\ FiniteSince'
      /\ f \in [Keys -> Values \cup {Miss}]
  BY ArrivedProperties DEF IInv, TypeOK
<1>2. op' \in [Threads -> Calls(Keys, Values)] /\ clock' = clock /\ result' = result
  <2>1. Idle \in Calls(Keys, Values)
    BY DEF Calls
  <2> QED
    BY <2>1 DEF IInv, TypeOK, FinishSet, StoreSet
<1>3. latest' = [k \in Keys |-> IF HasKey(store', k) THEN f[k] ELSE Miss]
  BY DEF FinishSet, StoreSet, Remember
<1> HIDE DEF u, f
<1>4. /\ store' \in Seq(Entry)
      /\ \E g : LeftAt(store', u, g)
      /\ Maxsize > 0 => Len(store') <= Maxsize
  BY <1>1, EvictLeaves
<1>5. OneEach(store') /\ Recent(store', since') /\ Matches(store', f)
  BY <1>1, <1>4, LeftKeeps
<1>6. TypeOK'
  BY <1>1, <1>2, <1>3, <1>4, <1>5 DEF IInv, TypeOK
<1>7. Bounded'
  BY <1>4 DEF Bounded
<1>8. Recency'
  BY <1>1, <1>5 DEF Recency, Recent
<1>9. Matches(store', latest')
  <2> SUFFICES ASSUME NEW i \in 1..Len(store') PROVE latest'[store'[i].key] = store'[i].value
    BY DEF Matches
  <2>1. store'[i] \in Entry
    BY <1>4, LenProperties
  <2>2. store'[i].key \in Keys /\ HasKey(store', store'[i].key)
    BY <2>1 DEF Entry, HasKey
  <2> QED
    BY <1>3, <1>5, <2>2 DEF Matches
<1>10. Remembers'
  BY <1>3, <1>9 DEF Remembers, Matches, HasKey
<1> QED
  BY <1>6, <1>7, <1>8, <1>10 DEF IInv

\* Every step keeps the inductive invariant.
LEMMA NextKeeps == IInv /\ [Next]_vars => IInv'
<1> SUFFICES ASSUME IInv, [Next]_vars PROVE IInv'
  OBVIOUS
<1>1. ASSUME NEW t \in Threads,
             \/ StartGet(t) \/ GetAbsent(t) \/ GetExpired(t) \/ GetHit(t)
             \/ StartSet(t) \/ FinishSet(t) \/ Clear(t)
      PROVE  IInv'
  BY <1>1, StartKeeps, GetAbsentKeeps, GetExpiredKeeps, GetHitKeeps, FinishSetKeeps, ClearKeeps
<1>2. CASE Tick
  BY <1>2, DictUntouched DEF Tick, IInv, TypeOK
<1>3. CASE UNCHANGED vars
  BY <1>3, DictUntouched DEF vars, IInv, TypeOK
<1> QED
  BY <1>1, <1>2, <1>3 DEF Next

-----------------------------------------------------------------------------
(* The properties *)

\* The inductive invariant of the memory backend: types, the limit, the LRU order as
\* an order of last use, and that every entry holds the value last set under its key.
THEOREM Invariance == Spec => []IInv
BY InitHolds, NextKeeps, PTL DEF Spec

\* The state keeps its types.
THEOREM TypeCorrect == Spec => []TypeOK
<1>1. IInv => TypeOK
  BY DEF IInv
<1> QED
  BY <1>1, Invariance, PTL

\* A positive maxsize is never exceeded.
THEOREM BoundedCorrect == Spec => []Bounded
<1>1. IInv => Bounded
  BY DEF IInv
<1> QED
  BY <1>1, Invariance, PTL

\* The end of a sequence without repetition, all of it in S: S has as many members.
LEMMA EndCounts ==
  ASSUME NEW s \in Seq(Entry), OneEach(s), NEW n \in Nat, n <= Len(s),
         NEW S, IsFiniteSet(S),
         \A i \in 1..Len(s) : i > Len(s) - n => s[i].key \in S
  PROVE  Cardinality(S) >= n
<1> DEFINE f == [i \in 1..n |-> s[Len(s) - n + i].key]
<1>1. Len(s) \in Nat /\ Cardinality(S) \in Nat
  BY LenProperties, FS_CardinalityType
<1>2. IsFiniteSet(1..n) /\ Cardinality(1..n) = n
  BY FS_Interval
<1>3. \A i \in 1..n : Len(s) - n + i \in 1..Len(s) /\ Len(s) - n + i > Len(s) - n
  BY <1>1
<1>4. f \in [1..n -> S]
  BY <1>3
<1>5. ASSUME NEW i \in 1..n, NEW j \in 1..n, f[i] = f[j] PROVE i = j
  <2>1. Len(s) - n + i = Len(s) - n + j
    BY <1>3, <1>5 DEF OneEach
  <2> QED
    BY <1>1, <2>1
<1> HIDE DEF f
<1>6. ASSUME Cardinality(S) < n PROVE FALSE
  <2>1. \E i, j \in 1..n : i # j /\ f[i] = f[j]
    BY <1>2, <1>4, <1>6, FS_PigeonHole
  <2> QED
    BY <1>5, <2>1
<1> QED
  BY <1>1, <1>6

\* How an entry goes.
Evicts ==
  \A k \in Keys :
    (HasKey(store, k) /\ ~HasKey(store', k)) =>
      \/ \E t \in Threads : GetExpired(t) /\ op[t].key = k
      \/ store' = <<>>
      \/ Maxsize > 0 /\ Cardinality(since'[k]) >= Maxsize

\* A set that makes an entry go has maxsize younger ones in the dict.
LEMMA FinishSetEvicts ==
  ASSUME IInv, NEW t \in Threads, FinishSet(t), NEW k \in Keys,
         HasKey(store, k), ~HasKey(store', k)
  PROVE  Maxsize > 0 /\ Cardinality(since'[k]) >= Maxsize
<1> DEFINE u == Arrived(t)
<1>1. /\ u \in Seq(Entry) /\ OneEach(u) /\ Recent(u, since') /\ HasKey(u, k)
      /\ store' = EvictIfNeeded(u)
      /\ FiniteSince'
  BY ArrivedProperties
<1> HIDE DEF u
<1>2. PICK i \in 1..Len(u) : u[i].key = k
  BY <1>1 DEF HasKey
<1>3. \A j \in 1..Len(u) : (Maxsize > 0 => j > Len(u) - Maxsize) => HasKey(store', u[j].key)
  BY <1>1, EvictLeaves
<1>4. Len(u) \in Nat
  BY <1>1, LenProperties
<1>5. Maxsize > 0 /\ i <= Len(u) - Maxsize
  BY <1>2, <1>3, <1>4
<1>6. \A j \in 1..Len(u) : j > Len(u) - Maxsize => u[j].key \in since'[k]
  BY <1>1, <1>2, <1>4, <1>5 DEF Recent
<1>7. IsFiniteSet(since'[k])
  BY <1>1 DEF FiniteSince
<1>8. Maxsize \in Nat /\ Maxsize <= Len(u)
  BY <1>2, <1>4, <1>5
<1> QED
  BY <1>1, <1>5, <1>6, <1>7, <1>8, EndCounts

\* No step lets an entry go otherwise than by expiry, clear or eviction.
LEMMA NextEvicts == IInv /\ [Next]_vars => [Evicts]_vars
<1> SUFFICES ASSUME IInv, Next, NEW k \in Keys, HasKey(store, k), ~HasKey(store', k)
             PROVE  \/ \E t \in Threads : GetExpired(t) /\ op[t].key = k
                    \/ store' = <<>>
                    \/ Maxsize > 0 /\ Cardinality(since'[k]) >= Maxsize
  BY DEF Evicts
<1>1. CASE Tick
  BY <1>1 DEF Tick
<1>2. ASSUME NEW t \in Threads, StartGet(t) \/ StartSet(t) \/ GetAbsent(t) PROVE FALSE
  BY <1>2 DEF StartGet, StartSet, GetAbsent
<1>3. ASSUME NEW t \in Threads, GetExpired(t) PROVE op[t].key = k
  <2>1. store \in Seq(Entry) /\ OneEach(store) /\ store' = Delete(store, op[t].key)
    BY <1>3 DEF IInv, TypeOK, GetExpired
  <2> QED
    BY <2>1, DeleteLeaves
<1>4. ASSUME NEW t \in Threads, GetHit(t) PROVE FALSE
  <2>1. op[t].key \in Keys /\ HasKey(store, op[t].key)
    BY <1>4, OpFields DEF GetHit, IInv
  <2>2. EntryOf(store, op[t].key) \in Entry
    BY <2>1, EntryOfKey DEF IInv
  <2>3. /\ store \in Seq(Entry) /\ OneEach(store)
        /\ store' = PutLast(store, EntryOf(store, op[t].key))
    BY <1>4 DEF IInv, TypeOK, GetHit
  <2> QED
    BY <2>2, <2>3, PutLastProperties DEF PutsLast
<1>5. ASSUME NEW t \in Threads, FinishSet(t)
      PROVE  Maxsize > 0 /\ Cardinality(since'[k]) >= Maxsize
  BY <1>5, FinishSetEvicts
<1>6. ASSUME NEW t \in Threads, Clear(t) PROVE store' = <<>>
  BY <1>6 DEF Clear
<1> QED
  BY <1>1, <1>2, <1>3, <1>4, <1>5, <1>6 DEF Next

\* An entry makes room only after maxsize other keys have been used since its own use.
THEOREM EvictsCorrect == Spec => EvictsLeastRecentlyUsed
<1>1. Spec => [][Evicts]_vars
  BY Invariance, NextEvicts, PTL DEF Spec
<1> QED
  BY <1>1 DEF EvictsLeastRecentlyUsed, Evicts

-----------------------------------------------------------------------------
(* The promise to the callers *)

\* What remains of base is a state that the promise allows.
LEMMA RememberAllowed ==
  ASSUME NEW base \in [Keys -> Values \cup {Miss}], Remember(base)
  PROVE  latest' \in Promise!After(base)
BY DEF Remember, Promise!After

\* Every step is one that ResponseCache allows, or a stutter of it.
LEMMA StepAllowed == IInv /\ [Next]_vars => [Promise!Next]_<<latest, result>>
<1> SUFFICES ASSUME IInv, [Next]_vars PROVE [Promise!Next]_<<latest, result>>
  OBVIOUS
<1>1. latest \in [Keys -> Values \cup {Miss}] /\ latest \in Promise!After(latest)
  BY DEF IInv, TypeOK, Promise!After
<1>2. CASE Tick \/ UNCHANGED vars
  BY <1>2 DEF Tick, vars
<1>3. ASSUME NEW t \in Threads, StartGet(t) \/ StartSet(t) PROVE UNCHANGED <<latest, result>>
  BY <1>3 DEF StartGet, StartSet
<1>4. ASSUME NEW t \in Threads, GetAbsent(t) \/ GetExpired(t) \/ GetHit(t)
      PROVE  \E k \in Keys : Promise!Get(t, k)
  <2>1. op[t].key \in Keys
    BY <1>4, OpFields DEF IInv, GetAbsent, GetExpired, GetHit
  <2>2. latest' \in Promise!After(latest)
    BY <1>1, <1>4, RememberAllowed DEF GetAbsent, GetExpired, GetHit
  <2>3. \E r \in {latest[op[t].key], Miss} : result' = [result EXCEPT ![t] = r]
    <3>1. HasKey(store, op[t].key) => latest[op[t].key] = EntryOf(store, op[t].key).value
      BY <2>1, EntryOfKey DEF IInv, Remembers
    <3> QED
      BY <1>4, <3>1 DEF GetAbsent, GetExpired, GetHit, Return
  <2> QED
    BY <2>1, <2>2, <2>3 DEF Promise!Get
<1>5. ASSUME NEW t \in Threads, FinishSet(t)
      PROVE  \E k \in Keys, v \in Values : Promise!Set(k, v)
  <2>1. op[t].key \in Keys /\ op[t].value \in Values
    BY <1>5, OpFields DEF IInv, FinishSet
  <2>2. [latest EXCEPT ![op[t].key] = op[t].value] \in [Keys -> Values \cup {Miss}]
    BY <1>1, <2>1
  <2>3. latest' \in Promise!After([latest EXCEPT ![op[t].key] = op[t].value])
    BY <1>5, <2>2, RememberAllowed DEF FinishSet, StoreSet
  <2> QED
    BY <1>5, <2>1, <2>3 DEF Promise!Set, FinishSet, StoreSet
<1>6. ASSUME NEW t \in Threads, Clear(t) PROVE Promise!Drop
  BY <1>1, <1>6, RememberAllowed DEF Promise!Drop, Clear
<1> QED
  BY <1>2, <1>3, <1>4, <1>5, <1>6 DEF Next, Promise!Next

\* Callers cannot tell the backend from ResponseCache.
THEOREM ResponseCacheImplemented == Spec => ImplementsResponseCache
<1>1. Init => Promise!Init
  BY DEF Init, Promise!Init
<1> QED
  BY <1>1, StepAllowed, Invariance, PTL DEF Spec, ImplementsResponseCache, Promise!Spec
=============================================================================
