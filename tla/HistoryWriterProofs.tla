------------------------- MODULE HistoryWriterProofs -------------------------
(***************************************************************************)
(* Proofs, for any number of processes and calls, batches of any size and  *)
(* every mixture of configurations, of the safety properties of            *)
(* HistoryWriter and that it implements HistoryLog.                        *)
(***************************************************************************)
EXTENDS HistoryWriter, SequenceTheorems, TLAPS

Rows == [call: Calls, row: 1..MaxRows]
Replies == [status: Statuses, count: 0..MaxRows]

\* TypeOK, with names for the sets of records.
Types ==
  /\ mode \in Configs
  /\ pc \in [Calls -> Steps]
  /\ batch \in [Calls -> 0..MaxRows]
  /\ persisted \in [Calls -> 0..MaxRows]
  /\ answer \in [Calls -> Replies]
  /\ cache \in [Procs -> Nat]
  /\ singletonLock \in [Procs -> Calls \cup {Free}]
  /\ cacheLock \in [Procs -> Calls \cup {Free}]
  /\ table \in BOOLEAN
  /\ log \in Seq(Rows)

\* Each lock is held by the call that is past its gate; a Cache is built only where
\* there is none.
LocksHeld ==
  \A c \in Calls :
    /\ pc[c] = "build" => singletonLock[Home[c]] = c /\ cache[Home[c]] = 0
    /\ pc[c] = "append" => cacheLock[Home[c]] = c

\* What a call has counted, step by step, and what it answers.
Progress ==
  \A c \in Calls :
    /\ persisted[c] <= batch[c]
    /\ pc[c] \in {"start", "get_cache", "build", "write"} => persisted[c] = 0
    /\ pc[c] # "done" => answer[c].status = "none"
    /\ answer[c].status = "written" => answer[c].count = persisted[c]
    /\ answer[c].status # "written" => answer[c].count = 0
    /\ answer[c].status \in {"skipped:error", "skipped:disabled"} => persisted[c] = 0

\* The rows of a call that are counted are in the table.
CountedStored ==
  \A c \in Calls : \A k \in 1..persisted[c] : Stored(c, k)

\* Of the others only the next, and only once the call has answered.
StoredCounted ==
  \A i \in 1..Len(log) :
    log[i].row <= persisted[log[i].call]
                  + (IF answer[log[i].call].status = "written" THEN 1 ELSE 0)

\* No other batch of its process has begun after the one that is being appended.
LastBatch ==
  \A c \in Calls : pc[c] = "append" =>
    \A i, j \in 1..Len(log) :
      (i < j /\ log[i].call = c /\ Home[log[j].call] = Home[c]) => log[j].call = c

\* The inductive invariant: of the control, and of the table.
Control == Types /\ LocksHeld /\ OneCachePerProcess /\ Progress
IInv == Control /\ CountedStored /\ StoredCounted /\ RowsInOrder /\ LastBatch /\ BatchesContiguous

USE WriterAssumption

-----------------------------------------------------------------------------
(* Control *)

\* The two forms of the types agree.
LEMMA TypesAgree == TypeOK <=> Types
BY DEF TypeOK, Types, Replies, Rows


\* A call's answer has the type of one.
LEMMA ReplyType ==
  ASSUME Types, NEW c \in Calls, NEW s \in Statuses, NEW n \in 0..MaxRows, Reply(c, s, n)
  PROVE  /\ pc' = [pc EXCEPT ![c] = "done"]
         /\ pc' \in [Calls -> Steps]
         /\ answer' \in [Calls -> Replies]
         /\ answer'[c].status = s /\ answer'[c].count = n
         /\ \A d \in Calls \ {c} : answer'[d] = answer[d]
<1>1. [status |-> s, count |-> n] \in Replies
  BY DEF Replies
<1>2. answer \in [Calls -> Replies] /\ pc \in [Calls -> Steps] /\ "done" \in Steps
  BY DEF Types, Steps
<1> QED
  BY <1>1, <1>2 DEF Reply, Goto

\* A row at the end of the table, and the rows before it.
LEMMA InsertAppends ==
  ASSUME Types, NEW c \in Calls, persisted[c] < batch[c], Insert(c)
  PROVE  /\ log' \in Seq(Rows)
         /\ Len(log) \in Nat /\ Len(log') = Len(log) + 1
         /\ \A i \in 1..Len(log) : log'[i] = log[i] /\ log[i] \in Rows
         /\ log'[Len(log) + 1] = [call |-> c, row |-> persisted[c] + 1]
<1>1. [call |-> c, row |-> persisted[c] + 1] \in Rows
  BY DEF Types, Rows
<1>2. log \in Seq(Rows)
  BY DEF Types, Rows
<1> QED
  BY <1>1, <1>2, AppendProperties, LenProperties DEF Insert

\* No call has begun, no lock is held.
LEMMA InitControl == Init => Control
<1> SUFFICES ASSUME Init PROVE Control
  OBVIOUS
<1>1. answer \in [Calls -> Replies]
  <2>1. [status |-> "none", count |-> 0] \in Replies
    BY DEF Replies, Statuses
  <2> QED
    BY <2>1 DEF Init
<1>2. Types
  <2>1. log \in Seq(Rows)
    BY DEF Init
  <2>2. pc \in [Calls -> Steps] /\ table \in BOOLEAN /\ mode \in Configs
    BY DEF Init, Steps
  <2>3. batch \in [Calls -> 0..MaxRows] /\ persisted \in [Calls -> 0..MaxRows]
    BY DEF Init
  <2>4. /\ cache \in [Procs -> Nat]
        /\ singletonLock \in [Procs -> Calls \cup {Free}]
        /\ cacheLock \in [Procs -> Calls \cup {Free}]
    BY DEF Init
  <2> QED
    BY <1>1, <2>1, <2>2, <2>3, <2>4 DEF Types
<1> QED
  BY <1>2 DEF Init, Control, LocksHeld, OneCachePerProcess, Progress

\* A step of a call that moves on without an answer and writes no row.
LEMMA StepControl ==
  ASSUME Control, NEW c \in Calls, UNCHANGED mode,
         Fetch(c) \/ EnterGetCache(c) \/ BuildCache(c) \/ EnterAppend(c)
  PROVE  Control'
<1> USE DEF Control, Goto
<1>1. CASE Fetch(c)
  <2> USE <1>1 DEF Fetch
  <2>1. Types'
    BY DEF Types, Steps
  <2>2. LocksHeld' /\ OneCachePerProcess'
    BY DEF Types, LocksHeld, OneCachePerProcess
  <2>3. Progress'
    BY DEF Types, Progress
  <2> QED
    BY <2>1, <2>2, <2>3
<1>2. CASE EnterGetCache(c)
  <2> USE <1>2 DEF EnterGetCache
  <2>1. Types'
    <3>1. singletonLock' \in [Procs -> Calls \cup {Free}]
      <4>1. /\ singletonLock \in [Procs -> Calls \cup {Free}]
            /\ \/ singletonLock' = singletonLock
               \/ singletonLock' = [singletonLock EXCEPT ![Home[c]] = c]
        BY DEF Types
      <4> HIDE <1>2 DEF Control
      <4> QED
        BY <4>1
    <3>2. pc' \in [Calls -> Steps]
      <4>1. /\ pc \in [Calls -> Steps]
            /\ pc' = [pc EXCEPT ![c] = "write"] \/ pc' = [pc EXCEPT ![c] = "build"]
        BY DEF Types
      <4> HIDE <1>2 DEF Control
      <4> QED
        BY <4>1 DEF Steps
    <3>3. UNCHANGED <<mode, batch, persisted, answer, cache, cacheLock, table, log>>
      OBVIOUS
    <3> HIDE <1>2
    <3> QED
      BY <3>1, <3>2, <3>3 DEF Types
  <2>2. LocksHeld' /\ OneCachePerProcess'
    BY DEF Types, LocksHeld, OneCachePerProcess
  <2>3. Progress'
    BY DEF Types, Progress
  <2> QED
    BY <2>1, <2>2, <2>3
<1>3. CASE BuildCache(c)
  <2> USE <1>3 DEF BuildCache
  <2>1. Types'
    <3>1. /\ singletonLock' \in [Procs -> Calls \cup {Free}]
          /\ cache' \in [Procs -> Nat]
          /\ table' \in BOOLEAN
      <4>1. /\ singletonLock \in [Procs -> Calls \cup {Free}]
            /\ cache \in [Procs -> Nat]
            /\ singletonLock' = [singletonLock EXCEPT ![Home[c]] = Free]
            /\ cache' = [cache EXCEPT ![Home[c]] = cache[Home[c]] + 1]
            /\ Home[c] \in Procs
        BY DEF Types
      <4>2. table' \in BOOLEAN
        BY DEF Types
      <4> HIDE <1>3 DEF Control, BuildCache
      <4> QED
        BY <4>1, <4>2
    <3>2. pc' \in [Calls -> Steps]
      BY DEF Types, Steps
    <3>3. UNCHANGED <<mode, batch, persisted, answer, cacheLock, log>>
      OBVIOUS
    <3> HIDE <1>3
    <3> QED
      BY <3>1, <3>2, <3>3 DEF Types
  <2>2. LocksHeld' /\ OneCachePerProcess'
    BY DEF Types, LocksHeld, OneCachePerProcess
  <2>3. Progress'
    BY DEF Types, Progress
  <2> QED
    BY <2>1, <2>2, <2>3
<1>4. CASE EnterAppend(c)
  <2> USE <1>4 DEF EnterAppend
  <2>1. Types'
    BY DEF Types, Steps
  <2>2. LocksHeld' /\ OneCachePerProcess'
    BY DEF Types, LocksHeld, OneCachePerProcess
  <2>3. Progress'
    BY DEF Types, Progress
  <2> QED
    BY <2>1, <2>2, <2>3
<1> QED
  BY <1>1, <1>2, <1>3, <1>4

\* A call that answers without having come to the append.
LEMMA SkipControl ==
  ASSUME Control, NEW c \in Calls, UNCHANGED mode,
         \/ FetchFails(c) \/ CacheDisabled(c) \/ BuildFails(c)
         \/ WriteNothing(c) \/ WriteRaises(c)
  PROVE  Control'
<1>1. PICK s \in Statuses : s # "none" /\ Reply(c, s, 0)
  BY DEF FetchFails, CacheDisabled, BuildFails, WriteNothing, WriteRaises, Statuses
<1>2. /\ pc[c] \in {"start", "get_cache", "build", "write"}
      /\ UNCHANGED <<batch, persisted, cache, cacheLock, table, log>>
      /\ \/ UNCHANGED singletonLock
         \/ singletonLock' = [singletonLock EXCEPT ![Home[c]] = Free] /\ pc[c] = "build"
  BY DEF FetchFails, CacheDisabled, BuildFails, WriteNothing, WriteRaises
<1>3. /\ pc' = [pc EXCEPT ![c] = "done"]
      /\ pc' \in [Calls -> Steps]
      /\ answer' \in [Calls -> Replies]
      /\ answer'[c].status = s /\ answer'[c].count = 0
      /\ \A d \in Calls \ {c} : answer'[d] = answer[d]
  <2>1. 0 \in 0..MaxRows
    OBVIOUS
  <2> QED
    BY <1>1, <2>1, ReplyType DEF Control
<1>4. Types'
  BY <1>2, <1>3 DEF Control, Types
<1>5. LocksHeld'
  BY <1>2, <1>3 DEF Control, Types, LocksHeld
<1>6. OneCachePerProcess'
  BY <1>2 DEF Control, OneCachePerProcess
<1>7. Progress'
  BY <1>2, <1>3 DEF Control, Types, Progress
<1> QED
  BY <1>4, <1>5, <1>6, <1>7 DEF Control

\* A row that is acknowledged.
LEMMA RowControl == ASSUME Control, NEW c \in Calls, UNCHANGED mode, AppendRow(c) PROVE Control'
<1> USE DEF Control, AppendRow, CanInsert
<1>1. Types'
  <2>1. log' \in Seq(Rows)
    BY InsertAppends
  <2> QED
    BY <2>1 DEF Types
<1>2. LocksHeld' /\ OneCachePerProcess'
  BY DEF LocksHeld, OneCachePerProcess
<1>3. Progress'
  BY DEF Types, Progress
<1> QED
  BY <1>1, <1>2, <1>3

\* The end of a batch.
LEMMA LeaveControl ==
  ASSUME Control, NEW c \in Calls, UNCHANGED mode,
         AppendUnacknowledged(c) \/ AppendRefused(c) \/ AppendedAll(c)
  PROVE  Control'
<1>1. /\ pc[c] = "append"
      /\ cacheLock' = [cacheLock EXCEPT ![Home[c]] = Free]
      /\ Reply(c, "written", persisted[c])
      /\ UNCHANGED <<batch, persisted, cache, singletonLock, table>>
  BY DEF AppendUnacknowledged, AppendRefused, AppendedAll, Leave, CanInsert
<1>2. /\ pc' = [pc EXCEPT ![c] = "done"]
      /\ pc' \in [Calls -> Steps]
      /\ answer' \in [Calls -> Replies]
      /\ answer'[c].status = "written" /\ answer'[c].count = persisted[c]
      /\ \A d \in Calls \ {c} : answer'[d] = answer[d]
  <2>1. "written" \in Statuses /\ persisted[c] \in 0..MaxRows
    BY DEF Control, Types, Statuses
  <2> QED
    BY <1>1, <2>1, ReplyType DEF Control
<1>3. Types'
  <2>1. log' \in Seq(Rows)
    <3>1. CASE AppendUnacknowledged(c)
      BY <3>1, InsertAppends DEF AppendUnacknowledged, CanInsert, Control
    <3>2. CASE AppendRefused(c) \/ AppendedAll(c)
      BY <3>2 DEF AppendRefused, AppendedAll, Control, Types, Rows
    <3> QED
      BY <3>1, <3>2
  <2> QED
    BY <1>1, <1>2, <2>1 DEF Control, Types
<1>4. LocksHeld'
  BY <1>1, <1>2 DEF Control, Types, LocksHeld
<1>5. OneCachePerProcess'
  BY <1>1 DEF Control, OneCachePerProcess
<1>6. Progress'
  BY <1>1, <1>2 DEF Control, Types, Progress
<1> QED
  BY <1>3, <1>4, <1>5, <1>6 DEF Control

\* Calls, locks and Cache of a process go together.
LEMMA RestartControl ==
  ASSUME Control, NEW p \in Procs, UNCHANGED mode, Restart(p) PROVE Control'
<1> USE DEF Control, Restart
<1>1. Types'
  <2>1. pc' \in [Calls -> Steps]
    <3>1. \A c \in Calls : pc[c] \in Steps
      BY DEF Types
    <3> HIDE DEF Control
    <3> QED
      BY <3>1 DEF Steps
  <2>2. /\ singletonLock' \in [Procs -> Calls \cup {Free}]
        /\ cacheLock' \in [Procs -> Calls \cup {Free}]
        /\ cache' \in [Procs -> Nat]
    BY DEF Types
  <2>3. UNCHANGED <<mode, batch, persisted, answer, table, log>>
    OBVIOUS
  <2> HIDE DEF Restart
  <2> QED
    BY <2>1, <2>2, <2>3 DEF Types
<1>2. LocksHeld' /\ OneCachePerProcess'
  <2>1. /\ LocksHeld /\ OneCachePerProcess
        /\ \A c \in Calls : /\ pc'[c] \in {pc[c], "lost"}
                            /\ (Home[c] = p) => pc'[c] \notin {"build", "append"}
    BY DEF Types, Active
  <2>2. /\ \A q \in Procs \ {p} : /\ cache'[q] = cache[q]
                                  /\ singletonLock'[q] = singletonLock[q]
                                  /\ cacheLock'[q] = cacheLock[q]
        /\ cache'[p] = 0
        /\ \A c \in Calls : Home[c] \in Procs
    BY DEF Types
  <2> HIDE DEF Restart, Control
  <2> QED
    BY <2>1, <2>2 DEF LocksHeld, OneCachePerProcess
<1>3. Progress'
  <2>1. \A c \in Calls : pc'[c] = pc[c] \/ (pc'[c] = "lost" /\ pc[c] # "done")
    BY DEF Types, Active
  <2>2. UNCHANGED <<batch, persisted, answer>>
    OBVIOUS
  <2>3. Progress
    OBVIOUS
  <2> HIDE DEF Restart, Control
  <2> QED
    BY <2>1, <2>2, <2>3 DEF Progress
<1> QED
  BY <1>1, <1>2, <1>3

\* Every step keeps the part of the invariant that is about control.
LEMMA NextControl == ASSUME Control, [Next]_vars PROVE Control'
<1>1. ASSUME NEW c \in Calls, CallStep(c) PROVE Control'
  BY <1>1, StepControl, SkipControl, RowControl, LeaveControl DEF CallStep, WriteHistory
<1>2. ASSUME NEW c \in Calls, Fetch(c) \/ FetchFails(c), UNCHANGED mode PROVE Control'
  BY <1>2, StepControl, SkipControl
<1>3. ASSUME NEW p \in Procs, Restart(p), UNCHANGED mode PROVE Control'
  BY <1>3, RestartControl
<1>4. CASE UNCHANGED vars
  BY <1>4 DEF vars, Control, Types, LocksHeld, OneCachePerProcess, Progress
<1> QED
  BY <1>1, <1>2, <1>3, <1>4 DEF Next

-----------------------------------------------------------------------------
(* The table *)

\* A call inserts only while it appends, and then without having answered.
LEMMA Inserting ==
  ASSUME Control, NEW c \in Calls, AppendRow(c) \/ AppendUnacknowledged(c)
  PROVE  /\ pc[c] = "append" /\ answer[c].status = "none"
         /\ persisted[c] \in Nat
         /\ persisted[c] < batch[c] /\ Insert(c)
         /\ Len(log) \in Nat /\ Len(log') = Len(log) + 1
         /\ \A i \in 1..Len(log) : log'[i] = log[i] /\ log[i] \in Rows
         /\ log'[Len(log) + 1] = [call |-> c, row |-> persisted[c] + 1]
<1>1. persisted[c] < batch[c] /\ Insert(c) /\ pc[c] = "append"
  BY DEF AppendRow, AppendUnacknowledged, CanInsert
<1>2. answer[c].status = "none" /\ persisted[c] \in Nat
  BY <1>1 DEF Control, Progress, Types
<1> QED
  BY <1>1, <1>2, InsertAppends DEF Control

\* The order and the contiguity of the rows survive an insert.
LEMMA InsertKeepsOrder ==
  ASSUME IInv, NEW c \in Calls, AppendRow(c) \/ AppendUnacknowledged(c)
  PROVE  RowsInOrder' /\ BatchesContiguous'
<1> DEFINE n == Len(log) + 1
<1>1. /\ pc[c] = "append" /\ answer[c].status = "none" /\ persisted[c] \in Nat
      /\ Len(log) \in Nat /\ Len(log') = n
      /\ \A i \in 1..Len(log) : log'[i] = log[i] /\ log[i] \in Rows
      /\ log'[n] = [call |-> c, row |-> persisted[c] + 1]
  BY Inserting DEF IInv
<1> HIDE DEF n
<1>2. \A i \in 1..n : i \in 1..Len(log) \/ i = n
  BY <1>1 DEF n
<1>3. RowsInOrder'
  <2> SUFFICES ASSUME NEW i \in 1..n, NEW j \in 1..n, i < j, log'[i].call = log'[j].call
               PROVE  log'[i].row < log'[j].row
    BY <1>1 DEF RowsInOrder
  <2>1. i \in 1..Len(log)
    BY <1>1 DEF n
  <2>2. CASE j \in 1..Len(log)
    BY <1>1, <2>1, <2>2 DEF IInv, RowsInOrder
  <2>3. CASE j = n
    <3>1. log[i].call = c /\ log'[i] = log[i] /\ log[i].row \in Nat
      BY <1>1, <2>1, <2>3 DEF Rows
    <3>2. log[i].row <= persisted[c]
      BY <1>1, <2>1, <3>1 DEF IInv, StoredCounted
    <3> QED
      BY <1>1, <2>3, <3>1, <3>2
  <2> QED
    BY <1>2, <2>2, <2>3
<1>4. BatchesContiguous'
  <2> SUFFICES ASSUME NEW i \in 1..n, NEW j \in 1..n, NEW k \in 1..n, i < j, j < k,
                      log'[i].call = log'[k].call,
                      Home[log'[j].call] = Home[log'[i].call]
               PROVE  log'[j].call = log'[i].call
    BY <1>1 DEF BatchesContiguous
  <2>1. i \in 1..Len(log) /\ j \in 1..Len(log)
    BY <1>1 DEF n
  <2>2. CASE k \in 1..Len(log)
    <3>1. log'[i] = log[i] /\ log'[j] = log[j] /\ log'[k] = log[k]
      BY <1>1, <2>1, <2>2
    <3> QED
      BY <2>1, <2>2, <3>1 DEF IInv, BatchesContiguous
  <2>3. CASE k = n
    BY <1>1, <2>1, <2>3 DEF IInv, LastBatch
  <2> QED
    BY <1>2, <2>2, <2>3
<1> QED
  BY <1>3, <1>4

\* Of a row that is stored it is known that it is counted, or that it is the last.
LEMMA InsertKeepsCounts ==
  ASSUME IInv, NEW c \in Calls, AppendRow(c) \/ AppendUnacknowledged(c)
  PROVE  CountedStored' /\ StoredCounted'
<1> DEFINE n == Len(log) + 1
           Extra(status) == IF status = "written" THEN 1 ELSE 0
<1>1. /\ answer[c].status = "none" /\ persisted[c] \in Nat
      /\ Len(log) \in Nat /\ Len(log') = n
      /\ \A i \in 1..Len(log) : log'[i] = log[i] /\ log[i] \in Rows
      /\ log'[n] = [call |-> c, row |-> persisted[c] + 1]
  BY Inserting DEF IInv
<1>2. \/ /\ UNCHANGED answer
         /\ persisted' = [persisted EXCEPT ![c] = @ + 1]
      \/ /\ UNCHANGED persisted
         /\ answer'[c].status = "written"
         /\ \A d \in Calls \ {c} : answer'[d] = answer[d]
  BY DEF AppendRow, AppendUnacknowledged, Leave, Reply, IInv, Control, Types
<1>3. \A d \in Calls : persisted[d] \in Nat
  BY DEF IInv, Control, Types
<1>4. \A d \in Calls : /\ persisted'[d] \in Nat
                      /\ persisted[d] + Extra(answer[d].status)
                         <= persisted'[d] + Extra(answer'[d].status)
                      /\ \/ persisted'[d] = persisted[d]
                         \/ d = c /\ persisted'[d] = persisted[d] + 1
  BY <1>1, <1>2, <1>3 DEF IInv, Control, Types
<1>5. persisted[c] + 1 <= persisted'[c] + Extra(answer'[c].status)
  BY <1>1, <1>2, <1>3 DEF IInv, Control, Types
<1> HIDE DEF n, Extra
<1>6. CountedStored'
  <2> SUFFICES ASSUME NEW d \in Calls, NEW k \in 1..persisted'[d] PROVE Stored(d, k)'
    BY DEF CountedStored
  <2>1. CASE k <= persisted[d]
    <3>1. Stored(d, k)
      BY <1>3, <2>1 DEF IInv, CountedStored
    <3> QED
      BY <1>1, <3>1 DEF Stored, n
  <2>2. CASE k > persisted[d]
    <3>1. d = c /\ k = persisted[c] + 1
      BY <1>3, <1>4, <2>2
    <3>2. n \in 1..Len(log')
      BY <1>1 DEF n
    <3> QED
      BY <1>1, <3>1, <3>2 DEF Stored
  <2> QED
    BY <1>3, <2>1, <2>2
<1>7. StoredCounted'
  <2> SUFFICES ASSUME NEW i \in 1..n
               PROVE  log'[i].row <= persisted'[log'[i].call] + Extra(answer'[log'[i].call].status)
    BY <1>1 DEF StoredCounted, Extra
  <2>1. CASE i \in 1..Len(log)
    <3>1. log'[i] = log[i] /\ log[i].call \in Calls /\ log[i].row \in Nat
      BY <1>1, <2>1 DEF Rows
    <3>2. log[i].row <= persisted[log[i].call] + Extra(answer[log[i].call].status)
      BY <2>1 DEF IInv, StoredCounted, Extra
    <3>3. PICK d \in Calls : d = log[i].call
      BY <3>1
    <3>4. /\ Extra(answer[d].status) \in Nat /\ Extra(answer'[d].status) \in Nat
          /\ log[i].row \in Nat /\ persisted[d] \in Nat /\ persisted'[d] \in Nat
          /\ persisted[d] + Extra(answer[d].status)
               <= persisted'[d] + Extra(answer'[d].status)
          /\ log[i].row <= persisted[d] + Extra(answer[d].status)
      BY <1>3, <1>4, <3>1, <3>2, <3>3 DEF Extra
    <3>5. log[i].row <= persisted'[d] + Extra(answer'[d].status)
      BY <3>4
    <3> QED
      BY <3>1, <3>3, <3>5
  <2>2. CASE i = n
    BY <1>1, <1>5, <2>2
  <2> QED
    BY <1>1, <2>1, <2>2 DEF n
<1> QED
  BY <1>6, <1>7

\* Only one call of a process appends, so the rows after those of a batch that is
\* being appended are of the same batch.
LEMMA InsertKeepsLast ==
  ASSUME IInv, NEW c \in Calls, AppendRow(c) \/ AppendUnacknowledged(c)
  PROVE  LastBatch'
<1> DEFINE n == Len(log) + 1
<1>1. /\ pc[c] = "append"
      /\ Len(log) \in Nat /\ Len(log') = n
      /\ \A i \in 1..Len(log) : log'[i] = log[i]
      /\ log'[n] = [call |-> c, row |-> persisted[c] + 1]
  BY Inserting DEF IInv
<1>2. \A d \in Calls : pc'[d] = "append" => pc[d] = "append"
  BY DEF AppendRow, AppendUnacknowledged, Leave, Reply, Goto, IInv, Control, Types
<1> HIDE DEF n
<1>3. \A i \in 1..n : i \in 1..Len(log) \/ i = n
  BY <1>1 DEF n
<1> SUFFICES ASSUME NEW d \in Calls, pc'[d] = "append", NEW i \in 1..n, NEW j \in 1..n, i < j,
                    log'[i].call = d, Home[log'[j].call] = Home[d]
             PROVE  log'[j].call = d
  BY <1>1 DEF LastBatch
<1>4. i \in 1..Len(log) /\ log'[i] = log[i]
  BY <1>1 DEF n
<1>5. CASE j \in 1..Len(log)
  BY <1>1, <1>2, <1>4, <1>5 DEF IInv, LastBatch
<1>6. CASE j = n
  BY <1>1, <1>2, <1>6 DEF IInv, Control, LocksHeld
<1> QED
  BY <1>3, <1>5, <1>6

\* A step that writes no row changes no count; it may answer, or take the lock.
LEMMA QuietKeeps ==
  ASSUME IInv, UNCHANGED <<log, persisted>>,
         \A c \in Calls : answer'[c].status = answer[c].status \/ answer[c].status = "none",
         \A c \in Calls : pc'[c] = "append" => pc[c] \in {"write", "append"}
  PROVE  CountedStored' /\ StoredCounted' /\ RowsInOrder' /\ LastBatch' /\ BatchesContiguous'
<1>1. /\ \A d \in Calls : persisted[d] \in Nat
      /\ Len(log) \in Nat
      /\ \A i \in 1..Len(log) : log[i].call \in Calls /\ log[i].row \in Nat \ {0}
  <2>1. log \in Seq(Rows)
    BY DEF IInv, Control, Types
  <2>2. Len(log) \in Nat /\ \A i \in 1..Len(log) : log[i] \in Rows
    BY <2>1, LenProperties
  <2>3. \A d \in Calls : persisted[d] \in Nat
    BY DEF IInv, Control, Types
  <2> QED
    BY <2>2, <2>3 DEF Rows
<1>2. CountedStored'
  BY DEF IInv, CountedStored, Stored
<1>3. StoredCounted'
  <2> SUFFICES ASSUME NEW i \in 1..Len(log)
               PROVE  log[i].row <= persisted[log[i].call]
                                    + (IF answer'[log[i].call].status = "written" THEN 1 ELSE 0)
    BY DEF StoredCounted
  <2>1. log[i].row <= persisted[log[i].call]
                      + (IF answer[log[i].call].status = "written" THEN 1 ELSE 0)
    BY DEF IInv, StoredCounted
  <2> QED
    BY <1>1, <2>1
<1>4. RowsInOrder' /\ BatchesContiguous'
  BY DEF IInv, RowsInOrder, BatchesContiguous
<1>5. LastBatch'
  <2> SUFFICES ASSUME NEW c \in Calls, pc'[c] = "append", NEW i \in 1..Len(log), NEW j \in 1..Len(log),
                      i < j, log[i].call = c, Home[log[j].call] = Home[c]
               PROVE  log[j].call = c
    BY DEF LastBatch
  <2>1. pc[c] # "write"
    <3> SUFFICES ASSUME pc[c] = "write" PROVE FALSE
      OBVIOUS
    <3>1. persisted[c] = 0 /\ answer[c].status = "none"
      BY DEF IInv, Control, Progress
    <3> QED
      BY <1>1, <3>1 DEF IInv, StoredCounted
  <2> QED
    BY <2>1 DEF IInv, LastBatch
<1> QED
  BY <1>2, <1>3, <1>4, <1>5

\* Every step keeps the inductive invariant.
LEMMA NextKeeps == IInv /\ [Next]_vars => IInv'
<1> SUFFICES ASSUME IInv, [Next]_vars PROVE IInv'
  OBVIOUS
<1>1. Control'
  BY NextControl DEF IInv
<1>2. ASSUME NEW c \in Calls, AppendRow(c) \/ AppendUnacknowledged(c) PROVE IInv'
  BY <1>1, <1>2, InsertKeepsOrder, InsertKeepsCounts, InsertKeepsLast DEF IInv
<1>3. ASSUME UNCHANGED <<log, persisted>>,
             \A c \in Calls : answer'[c].status = answer[c].status \/ answer[c].status = "none",
             \A c \in Calls : pc'[c] = "append" => pc[c] \in {"write", "append"}
      PROVE  IInv'
  BY <1>1, <1>3, QuietKeeps DEF IInv
<1>4. ASSUME NEW c \in Calls,
             \/ Fetch(c) \/ EnterGetCache(c) \/ BuildCache(c) \/ EnterAppend(c)
      PROVE  IInv'
  <2>1. UNCHANGED <<log, persisted, answer>>
    BY <1>4 DEF Fetch, EnterGetCache, BuildCache, EnterAppend
  <2>2. \A d \in Calls : pc'[d] = "append" => pc[d] \in {"write", "append"}
    BY <1>4 DEF Fetch, EnterGetCache, BuildCache, EnterAppend, Goto, IInv, Control, Types
  <2> QED
    BY <1>3, <2>1, <2>2
<1>5. ASSUME NEW c \in Calls,
             \/ FetchFails(c) \/ CacheDisabled(c) \/ BuildFails(c) \/ WriteNothing(c)
             \/ WriteRaises(c) \/ AppendRefused(c) \/ AppendedAll(c)
      PROVE  IInv'
  <2>1. /\ UNCHANGED <<log, persisted>>
        /\ pc[c] # "done"
        /\ \E s \in Statuses, n \in 0..MaxRows : Reply(c, s, n)
    BY <1>5 DEF FetchFails, CacheDisabled, BuildFails, WriteNothing, WriteRaises, AppendRefused,
                AppendedAll, Leave, Statuses, IInv, Control, Types
  <2>2. answer[c].status = "none"
    BY <2>1 DEF IInv, Control, Progress
  <2>3. \A d \in Calls : answer'[d].status = answer[d].status \/ answer[d].status = "none"
    BY <2>1, <2>2 DEF Reply, IInv, Control, Types
  <2>4. \A d \in Calls : pc'[d] = "append" => pc[d] \in {"write", "append"}
    BY <2>1 DEF Reply, Goto, IInv, Control, Types
  <2> QED
    BY <1>3, <2>1, <2>3, <2>4
<1>6. ASSUME NEW p \in Procs, Restart(p) PROVE IInv'
  <2>1. UNCHANGED <<log, persisted, answer>>
    BY <1>6 DEF Restart
  <2>2. \A d \in Calls : pc'[d] = "append" => pc[d] \in {"write", "append"}
    BY <1>6 DEF Restart
  <2> QED
    BY <1>3, <2>1, <2>2
<1>7. CASE UNCHANGED vars
  BY <1>3, <1>7 DEF vars
<1> QED
  BY <1>2, <1>4, <1>5, <1>6, <1>7 DEF Next, CallStep, WriteHistory

\* The inductive invariant holds of an empty table and calls not begun.
LEMMA InitHolds == Init => IInv
<1> SUFFICES ASSUME Init PROVE IInv
  OBVIOUS
<1>1. Control
  BY InitControl
<1>2. Len(log) = 0 /\ \A c \in Calls : persisted[c] = 0
  BY DEF Init
<1>3. CountedStored /\ StoredCounted /\ RowsInOrder /\ LastBatch /\ BatchesContiguous
  BY <1>2 DEF CountedStored, StoredCounted, RowsInOrder, LastBatch, BatchesContiguous
<1> QED
  BY <1>1, <1>3 DEF IInv

-----------------------------------------------------------------------------
(* Safety *)

\* The inductive invariant holds of every behaviour.
THEOREM InvariantHolds == Spec => []IInv
BY InitHolds, NextKeeps, PTL DEF Spec

\* TypeOK: the types; no row in the table is past the longest batch.
THEOREM TypeCorrect == Spec => []TypeOK
<1>1. IInv => TypeOK
  BY TypesAgree DEF IInv, Control
<1> QED
  BY <1>1, InvariantHolds, PTL

\* While a call has not answered the table holds just the rows it has counted.
LEMMA PrefixStored ==
  ASSUME IInv, NEW c \in Calls, answer[c].status # "written", NEW k \in 1..MaxRows
  PROVE  Stored(c, k) <=> k <= persisted[c]
<1>1. persisted[c] \in Nat
  BY DEF IInv, Control, Types
<1>2. k <= persisted[c] => Stored(c, k)
  BY <1>1 DEF IInv, CountedStored
<1>3. ASSUME NEW i \in 1..Len(log), log[i] = [call |-> c, row |-> k] PROVE k <= persisted[c]
  BY <1>1, <1>3 DEF IInv, StoredCounted
<1> QED
  BY <1>2, <1>3 DEF Stored

\* CountSound: the count in an answer is true of the table, or one short of it,
\* whatever fails or restarts and whoever else writes.
THEOREM CountCorrect == Spec => []CountSound
<1>1. IInv => CountSound
  <2> SUFFICES ASSUME IInv, NEW c \in Calls, answer[c].status = "written"
               PROVE  /\ \A k \in 1..answer[c].count : Stored(c, k)
                      /\ \A k \in 1..MaxRows : Stored(c, k) => k <= answer[c].count + 1
    BY DEF CountSound
  <2>1. answer[c].count = persisted[c]
    BY DEF IInv, Control, Progress
  <2>2. ASSUME NEW k \in 1..MaxRows, NEW i \in 1..Len(log), log[i] = [call |-> c, row |-> k]
        PROVE  k <= persisted[c] + 1
    BY <2>2 DEF IInv, StoredCounted
  <2> QED
    BY <2>1, <2>2 DEF IInv, CountedStored, Stored
<1> QED
  BY <1>1, InvariantHolds, PTL

\* SkippedStoresNothing: the answer that the history was skipped is true as well.
THEOREM SkippedCorrect == Spec => []SkippedStoresNothing
<1>1. IInv => SkippedStoresNothing
  <2> SUFFICES ASSUME IInv, NEW c \in Calls,
                      answer[c].status \in {"skipped:error", "skipped:disabled"},
                      NEW k \in 1..MaxRows
               PROVE  ~Stored(c, k)
    BY DEF SkippedStoresNothing
  <2>1. persisted[c] = 0
    BY DEF IInv, Control, Progress
  <2> QED
    BY <2>1, PrefixStored
<1> QED
  BY <1>1, InvariantHolds, PTL

\* RowsInOrder: _append_rows stores the rows of a batch in their order, each once.
THEOREM OrderCorrect == Spec => []RowsInOrder
<1>1. IInv => RowsInOrder
  BY DEF IInv
<1> QED
  BY <1>1, InvariantHolds, PTL

\* BatchesContiguous: two batches of one process never interleave in the table.
THEOREM ContiguousCorrect == Spec => []BatchesContiguous
<1>1. IInv => BatchesContiguous
  BY DEF IInv
<1> QED
  BY <1>1, InvariantHolds, PTL

\* OneCachePerProcess: get_cache looks for the Cache with its lock held.
THEOREM OneCacheCorrect == Spec => []OneCachePerProcess
<1>1. IInv => OneCachePerProcess
  BY DEF IInv, Control
<1> QED
  BY <1>1, InvariantHolds, PTL

-----------------------------------------------------------------------------
(* Refinement *)

\* The count that HistoryLog sees.
Reported == [c \in Calls |-> IF answer[c].status = "none" THEN None ELSE answer[c].count]

\* A call that has not answered has reported nothing and has stored its prefix.
LEMMA PrefixReported ==
  ASSUME IInv, NEW c \in Calls, answer[c].status = "none"
  PROVE  /\ Reported[c] = None
         /\ persisted[c] \in 0..MaxRows
         /\ History!StoredPrefix(c, persisted[c])
<1>1. persisted[c] \in 0..MaxRows
  BY DEF IInv, Control, Types
<1>2. \A k \in 1..MaxRows : Stored(c, k) <=> k <= persisted[c]
  BY PrefixStored
<1> QED
  BY <1>1, <1>2 DEF History!StoredPrefix, History!Stored, History!Row, Stored, Reported

\* An answer is a report.
LEMMA ReplyReports ==
  ASSUME IInv, NEW c \in Calls, pc[c] # "done", NEW s \in Statuses \ {"none"}, NEW n \in 0..MaxRows,
         Reply(c, s, n)
  PROVE  Reported[c] = None /\ Reported' = [Reported EXCEPT ![c] = n]
<1>1. /\ \A d \in Calls \ {c} : answer'[d] = answer[d]
      /\ answer'[c].status = s /\ answer'[c].count = n
  BY ReplyType DEF IInv, Control
<1>2. answer[c].status = "none"
  BY DEF IInv, Control, Progress
<1> QED
  BY <1>1, <1>2 DEF Reported

\* Every step stores the next row of a batch, reports, does both, or shows nothing.
LEMMA StepImplements ==
  ASSUME IInv, [Next]_vars
  PROVE  [History!Next]_<<log, Reported>>
<1>1. ASSUME NEW c \in Calls, AppendRow(c) PROVE History!Next
  <2>1. /\ answer[c].status = "none" /\ persisted[c] < batch[c] /\ Insert(c)
        /\ batch[c] \in 0..MaxRows
        /\ UNCHANGED Reported
    BY <1>1, Inserting DEF AppendRow, IInv, Control, Types, Reported
  <2>2. persisted[c] + 1 \in 1..MaxRows /\ (persisted[c] + 1) - 1 = persisted[c]
    BY <2>1, PrefixReported
  <2>3. /\ History!StoredPrefix(c, (persisted[c] + 1) - 1)
        /\ log' = Append(log, History!Row(c, persisted[c] + 1))
    BY <2>1, <2>2, PrefixReported DEF Insert, History!Row
  <2>4. History!Store(c)
    BY <2>1, <2>2, <2>3, PrefixReported DEF History!Store, Reported
  <2> QED
    BY <2>4 DEF History!Next
<1>2. ASSUME NEW c \in Calls, AppendUnacknowledged(c) PROVE History!Next
  <2>1. /\ answer[c].status = "none" /\ persisted[c] < batch[c] /\ Insert(c)
        /\ batch[c] \in 0..MaxRows
        /\ pc[c] # "done" /\ Reply(c, "written", persisted[c])
    BY <1>2, Inserting DEF AppendUnacknowledged, Leave, IInv, Control, Types
  <2>2. /\ persisted[c] + 1 \in 1..MaxRows /\ (persisted[c] + 1) - 1 = persisted[c]
        /\ persisted[c] \in 0..MaxRows
    BY <2>1, PrefixReported
  <2>3. /\ History!StoredPrefix(c, (persisted[c] + 1) - 1)
        /\ log' = Append(log, History!Row(c, persisted[c] + 1))
    BY <2>1, <2>2, PrefixReported DEF Insert, History!Row
  <2>4. Reported[c] = None /\ Reported' = [Reported EXCEPT ![c] = persisted[c]]
    BY <2>1, <2>2, ReplyReports DEF Statuses
  <2>5. History!StoreAndReport(c)
    BY <2>2, <2>3, <2>4 DEF History!StoreAndReport, Reported
  <2> QED
    BY <2>5 DEF History!Next
<1>3. ASSUME NEW c \in Calls,
             \/ FetchFails(c) \/ CacheDisabled(c) \/ BuildFails(c) \/ WriteNothing(c)
             \/ WriteRaises(c) \/ AppendRefused(c) \/ AppendedAll(c)
      PROVE  History!Next
  <2>1. /\ UNCHANGED log
        /\ pc[c] # "done"
        /\ \E s \in Statuses \ {"none"} : Reply(c, s, persisted[c])
    BY <1>3 DEF FetchFails, CacheDisabled, BuildFails, WriteNothing, WriteRaises, AppendRefused,
                AppendedAll, Leave, Statuses, IInv, Control, Progress
  <2>2. answer[c].status = "none"
    BY <2>1 DEF IInv, Control, Progress
  <2>3. persisted[c] \in 0..MaxRows /\ History!StoredPrefix(c, persisted[c])
    BY <2>2, PrefixReported
  <2>4. Reported[c] = None /\ Reported' = [Reported EXCEPT ![c] = persisted[c]]
    BY <2>1, <2>3, ReplyReports
  <2>5. History!Report(c)
    BY <2>1, <2>3, <2>4 DEF History!Report, Reported
  <2> QED
    BY <2>5 DEF History!Next
<1>4. ASSUME UNCHANGED <<log, answer>> PROVE UNCHANGED <<log, Reported>>
  BY <1>4 DEF Reported
<1>5. ASSUME NEW c \in Calls,
             \/ Fetch(c) \/ EnterGetCache(c) \/ BuildCache(c) \/ EnterAppend(c)
      PROVE  UNCHANGED <<log, Reported>>
  BY <1>4, <1>5 DEF Fetch, EnterGetCache, BuildCache, EnterAppend
<1>6. ASSUME NEW p \in Procs, Restart(p) PROVE UNCHANGED <<log, Reported>>
  BY <1>4, <1>6 DEF Restart
<1>7. CASE UNCHANGED vars
  BY <1>4, <1>7 DEF vars
<1> QED
  BY <1>1, <1>2, <1>3, <1>5, <1>6, <1>7 DEF Next, CallStep, WriteHistory

\* ImplementsHistoryLog: whatever fails, restarts or runs at the same time, the table
\* and the answers are as HistoryLog promises.
THEOREM LogCorrect == Spec => ImplementsHistoryLog
<1>1. Init => History!Init
  BY DEF Init, History!Init
<1>2. IInv /\ [Next]_vars => [History!Next]_<<log, Reported>>
  BY StepImplements
<1> QED
  BY <1>1, <1>2, InvariantHolds, PTL DEF Spec, ImplementsHistoryLog, History!Spec, Reported

=============================================================================
