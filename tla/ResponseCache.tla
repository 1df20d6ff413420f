--------------------------- MODULE ResponseCache ---------------------------
(***************************************************************************)
(* What the get / set half of the CacheBackend protocol promises to its    *)
(* callers, whatever the backend does about space and time: a hit is the   *)
(* value last set under the key, and an entry may be gone at any moment.   *)
(***************************************************************************)
CONSTANTS Threads, Keys, Values, Miss

VARIABLES
  cached,  \* [Keys -> the value a get may return, or Miss]
  result   \* [Threads -> what the thread's last get returned]

\* Any entries may be dropped (evicted, expired, cleared) in any step.
After(base) == {c \in [Keys -> Values \cup {Miss}] : \A k \in Keys : c[k] \in {base[k], Miss}}

Init ==
  /\ cached = [k \in Keys |-> Miss]
  /\ result = [t \in Threads |-> Miss]

Set(k, v) ==
  /\ cached' \in After([cached EXCEPT ![k] = v])
  /\ UNCHANGED result

Get(t, k) ==
  /\ cached' \in After(cached)
  /\ result' \in {[result EXCEPT ![t] = r] : r \in {cached[k], Miss}}

Drop ==
  /\ cached' \in After(cached)
  /\ UNCHANGED result

Next ==
  \/ \E k \in Keys, v \in Values : Set(k, v)
  \/ \E t \in Threads, k \in Keys : Get(t, k)
  \/ Drop

Spec == Init /\ [][Next]_<<cached, result>>
=============================================================================
