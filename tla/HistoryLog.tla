----------------------------- MODULE HistoryLog -----------------------------
(***************************************************************************)
(* What the derived history promises, whoever writes it: a call stores the *)
(* rows of its batch in order, each at most once, with no gap, and the     *)
(* count it reports is what it stored, or one row short of it.             *)
(***************************************************************************)
EXTENDS Naturals, Sequences

CONSTANTS
  Calls,    \* the tool calls that write history
  MaxRows,  \* bound: rows in a batch
  None      \* "has not reported"

VARIABLES
  log,      \* the rows in the table, oldest first
  reported  \* [Calls -> the count in the answer, or None]

Row(c, k) == [call |-> c, row |-> k]

Stored(c, k) == \E i \in 1..Len(log) : log[i] = Row(c, k)

\* c has stored exactly the first k rows of its batch.
StoredPrefix(c, k) == \A r \in 1..MaxRows : Stored(c, r) <=> r <= k

Init ==
  /\ log = <<>>
  /\ reported = [c \in Calls |-> None]

Store(c) ==
  /\ reported[c] = None
  /\ \E k \in 1..MaxRows :
       /\ StoredPrefix(c, k - 1)
       /\ log' = Append(log, Row(c, k))
  /\ UNCHANGED reported

Report(c) ==
  /\ reported[c] = None
  /\ \E k \in 0..MaxRows :
       /\ StoredPrefix(c, k) \/ StoredPrefix(c, k + 1)
       /\ reported' = [reported EXCEPT ![c] = k]
  /\ UNCHANGED log

\* The last insert of a batch may have been stored and yet have failed, with the
\* call's last report: then both happen at once.
StoreAndReport(c) ==
  /\ reported[c] = None
  /\ \E k \in 1..MaxRows :
       /\ StoredPrefix(c, k - 1)
       /\ log' = Append(log, Row(c, k))
       /\ reported' = [reported EXCEPT ![c] = k - 1]

Next == \E c \in Calls : Store(c) \/ Report(c) \/ StoreAndReport(c)

Spec == Init /\ [][Next]_<<log, reported>>
=============================================================================
