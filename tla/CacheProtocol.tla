---------------------------- MODULE CacheProtocol ----------------------------
(***************************************************************************)
(* What a caller may rely on whichever CacheBackend it was given.  A get   *)
(* returns nothing, or what was set under that very key, whose TTL had not *)
(* run out when the get began.  An entry may be lost at any time.  On what *)
(* is left open here the backends differ: how a value comes back (Read),   *)
(* whether it lasts to the end of its TTL or beyond (Grace), and which of  *)
(* several sets a get returns.                                             *)
(***************************************************************************)
EXTENDS CacheCalls

CONSTANTS
  Callers,
  Keys,
  Values,
  Read,   \* [Values -> what a value that was set is read back as]
  Grace   \* how long an entry may outlive its TTL

VARIABLES
  time,
  pending,  \* [Callers -> the call that is under way]
  offered,  \* the entries a get may find
  result    \* [Callers -> what the caller's last get returned]

protocolVars == <<time, pending, offered, result>>

Init ==
  /\ time = 0
  /\ pending = [c \in Callers |-> Idle]
  /\ offered = {}
  /\ result = [c \in Callers |-> Miss]

Ask(c) ==
  /\ pending[c] = Idle
  /\ \E k \in Keys :
       \/ pending' = [pending EXCEPT ![c] = GetCall(k, time)]
       \/ \E v \in Values, ttl \in Ttls :
            pending' = [pending EXCEPT ![c] = SetCall(k, v, ttl, time)]
  /\ UNCHANGED <<time, offered, result>>

Done(c) == pending' = [pending EXCEPT ![c] = Idle]

\* Nothing is offered but what this call has set, from some moment of the call on
\* and for its TTL.
Set(c) ==
  /\ pending[c].kind = "set"
  /\ \E since \in pending[c].now .. time :
       offered' \subseteq offered \cup
         {[key |-> pending[c].key, value |-> Read[pending[c].value],
           expires |-> since + Clamped(pending[c].ttl)]}
  /\ Done(c)
  /\ UNCHANGED <<time, result>>

\* What the get of a key that began at now may return.
Hits(k, now) == {e.value : e \in {x \in offered : x.key = k /\ now < x.expires + Grace}}

Get(c) ==
  /\ pending[c].kind = "get"
  /\ \E r \in Hits(pending[c].key, pending[c].now) \cup {Miss} : result' = [result EXCEPT ![c] = r]
  /\ offered' \subseteq offered
  /\ Done(c)
  /\ UNCHANGED time

\* Entries are evicted, expire, or are cleared.
Lose ==
  /\ offered' \subseteq offered
  /\ UNCHANGED <<time, pending, result>>

Pass ==
  /\ time' > time
  /\ UNCHANGED <<pending, offered, result>>

Next ==
  \/ \E c \in Callers : Ask(c) \/ Set(c) \/ Get(c)
  \/ Lose
  \/ Pass

Spec == Init /\ [][Next]_protocolVars
=============================================================================
