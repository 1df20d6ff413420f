----------------------------- MODULE CacheCalls -----------------------------
(* The CacheBackend calls get and set, between their start and their end.  *)
EXTENDS Integers

CONSTANTS
  Ttls,  \* the ttl_seconds callers use
  Miss   \* None

ASSUME CallAssumption == Ttls \subseteq Int

Idle == [kind |-> "idle"]

\* The calls for keys of K and values of V, with the time at which they began.
Calls(K, V) ==
  {Idle}
  \cup [kind: {"get"}, key: K, now: Nat]
  \cup [kind: {"set"}, key: K, value: V, ttl: Ttls, now: Nat]

GetCall(k, now) == [kind |-> "get", key |-> k, now |-> now]
SetCall(k, v, ttl, now) == [kind |-> "set", key |-> k, value |-> v, ttl |-> ttl, now |-> now]

\* max(0, ttl_seconds)
Clamped(ttl) == IF ttl > 0 THEN ttl ELSE 0
=============================================================================
