--------------------------- MODULE TokenFileProofs ---------------------------
(***************************************************************************)
(* Proofs, for any number of logins that fail, die or overlap anywhere, of *)
(* the properties of TokenFile.                                            *)
(***************************************************************************)
EXTENDS TokenFile, TLAPS

\* The two names never point to one file.
TwoNames == token = None \/ tmp # token

\* A login that has not opened its file yet has left no trace.
Unborn ==
  \A l \in Logins : pc[l] \in {"start", "browser"} =>
    /\ tmp # l /\ token # l /\ last # l
    /\ \A m \in Logins : fd[m] # l

\* Of two logins that are writing neither counts as alone.
OverlapSeen ==
  \A l, m \in Logins : (Writing(l) /\ Writing(m) /\ l # m) => ~alone[l]

\* Writing takes no time.
WritesNow ==
  /\ clock <= MaxClock
  /\ \A l \in Logins : Writing(l) => fd[l] # None /\ minted[l] = clock

\* A login that is alone keeps the temporary name for the file it has opened, and
\* what it has done to it stays.
SoleWriter ==
  \A l \in Logins : (Writing(l) /\ alone[l]) =>
    /\ tmp = fd[l]
    /\ mtime[tmp] = clock
    /\ content[tmp] = IF pc[l] = "write" THEN Empty ELSE l
    /\ (pc[l] = "replace" /\ chmodded[l]) => secure[tmp]

\* The last rename made token.json, and what a login that was alone has installed
\* nobody has open.
LastRename ==
  /\ (token = None) <=> (last = None)
  /\ last # None => pc[last] = "ok"
  /\ (last # None /\ alone[last]) => \A m \in Logins : Writing(m) => fd[m] # token

\* The inductive invariant.
IInv ==
  /\ TypeOK
  /\ TwoNames
  /\ Unborn
  /\ OverlapSeen
  /\ WritesNow
  /\ SoleWriter
  /\ LastRename
  /\ SoleLoginInstalls

USE FileAssumption

-----------------------------------------------------------------------------

\* No login has opened a file.
LEMMA InitHolds == Init => IInv
BY DEF Init, IInv, TypeOK, TwoNames, Unborn, OverlapSeen, WritesNow, SoleWriter, LastRename,
       SoleLoginInstalls, Writing, Steps, Ends

\* Time passes only while nobody writes.
LEMMA TickKeeps == IInv /\ Tick => IInv'
BY DEF Tick, fileVars, historyVars, IInv, TypeOK, TwoNames, Unborn, OverlapSeen, WritesNow,
       SoleWriter, LastRename, SoleLoginInstalls, Writing, Steps, Ends

\* Before the file is opened nothing is touched.
LEMMA StartKeeps == ASSUME IInv, NEW l \in Logins, Start(l) \/ Abandon(l) PROVE IInv'
BY DEF Start, Abandon, Goto, fileVars, historyVars, IInv, TypeOK, TwoNames, Unborn, OverlapSeen, WritesNow,
       SoleWriter, LastRename, SoleLoginInstalls, Writing, Steps, Ends

\* A login that opens token.tmp ends the solitude of all that are writing.
LEMMA OpenKeeps == ASSUME IInv, NEW l \in Logins, Open(l) PROVE IInv'
<1> USE DEF IInv, Open, Minted, Goto, Writing, Steps, Ends
<1>1. TypeOK'
  BY DEF TypeOK
<1>2. TwoNames'
  BY DEF TwoNames, Unborn, TypeOK
<1>3. Unborn'
  BY DEF Unborn, TypeOK
<1>4. OverlapSeen'
  BY DEF OverlapSeen, TypeOK
<1>5. WritesNow'
  BY DEF WritesNow, TypeOK
<1>6. SoleWriter'
  <2> SUFFICES ASSUME NEW m \in Logins, Writing(m)', alone'[m]
               PROVE  /\ tmp' = fd'[m] /\ mtime'[tmp'] = clock'
                      /\ content'[tmp'] = Empty /\ pc'[m] = "write"
    BY DEF SoleWriter
  <2>1. m = l
    <3> SUFFICES ASSUME m # l, Writing(m) PROVE FALSE
      BY DEF TypeOK
    <3>1. alone'[m] = (alone[m] /\ ~(\E n \in Logins : Writing(n) /\ n # l /\ m \in {l, n}))
      OBVIOUS
    <3> QED
      BY <3>1, Zenon
  <2> QED
    BY <2>1 DEF TypeOK
<1>7. LastRename'
  BY <1>2 DEF LastRename, TypeOK, TwoNames
<1>8. SoleLoginInstalls'
  BY <1>2 DEF LastRename, SoleLoginInstalls, TypeOK, TwoNames
<1> QED
  BY <1>1, <1>2, <1>3, <1>4, <1>5, <1>6, <1>7, <1>8

\* A write, cut short or not, goes to the open file.
LEMMA WriteKeeps == ASSUME IInv, NEW l \in Logins, Write(l) \/ WriteFails(l) PROVE IInv'
<1> USE DEF IInv, Write, WriteFails, Goto, Writing, Steps, Ends, historyVars
<1>1. TypeOK'
  BY DEF TypeOK, WritesNow
<1>2. TwoNames' /\ Unborn' /\ OverlapSeen' /\ WritesNow'
  BY DEF TwoNames, Unborn, OverlapSeen, WritesNow, TypeOK
<1>3. SoleWriter'
  BY DEF SoleWriter, OverlapSeen, WritesNow, TypeOK
<1>4. LastRename' /\ SoleLoginInstalls'
  BY DEF LastRename, SoleLoginInstalls, WritesNow, TypeOK
<1> QED
  BY <1>1, <1>2, <1>3, <1>4

\* chmod makes whatever token.tmp names secure.
LEMMA ChmodKeeps == ASSUME IInv, NEW l \in Logins, Chmod(l) PROVE IInv'
<1> USE DEF IInv, Chmod, Goto, Writing, Steps, Ends
<1>1. TypeOK'
  BY DEF TypeOK
<1>2. TwoNames' /\ Unborn' /\ OverlapSeen' /\ WritesNow'
  BY DEF TwoNames, Unborn, OverlapSeen, WritesNow, TypeOK
<1>3. SoleWriter'
  BY DEF SoleWriter, OverlapSeen, WritesNow, TypeOK
<1>4. LastRename' /\ SoleLoginInstalls'
  BY DEF LastRename, SoleLoginInstalls, TypeOK
<1> QED
  BY <1>1, <1>2, <1>3, <1>4

\* The rename installs what token.tmp names: the login's own file, if it is alone.
LEMMA ReplaceKeeps == ASSUME IInv, NEW l \in Logins, Replace(l) PROVE IInv'
<1> USE DEF IInv, Replace, Goto, Writing, Steps, Ends
<1>1. TypeOK'
  BY DEF TypeOK
<1>2. TwoNames' /\ Unborn' /\ OverlapSeen' /\ WritesNow'
  BY DEF TwoNames, Unborn, OverlapSeen, WritesNow, TypeOK
<1>3. SoleWriter'
  BY DEF SoleWriter, OverlapSeen, TypeOK
<1>4. LastRename' /\ SoleLoginInstalls'
  BY DEF LastRename, SoleLoginInstalls, SoleWriter, OverlapSeen, TypeOK
<1> QED
  BY <1>1, <1>2, <1>3, <1>4

\* A login whose file has gone, or that is killed, leaves the names alone.
LEMMA EndKeeps == ASSUME IInv, NEW l \in Logins, ReplaceFails(l) \/ Kill(l) PROVE IInv'
<1> USE DEF IInv, ReplaceFails, Kill, Goto, Writing, Steps, Ends, historyVars, fileVars
<1>1. TypeOK'
  BY DEF TypeOK, WritesNow
<1>2. TwoNames' /\ Unborn' /\ OverlapSeen' /\ WritesNow'
  BY DEF TwoNames, Unborn, OverlapSeen, WritesNow, TypeOK
<1>3. SoleWriter'
  BY DEF SoleWriter, OverlapSeen, WritesNow, TypeOK
<1>4. LastRename' /\ SoleLoginInstalls'
  BY DEF LastRename, SoleLoginInstalls, WritesNow, TypeOK
<1> QED
  BY <1>1, <1>2, <1>3, <1>4

\* Every step of a login keeps the inductive invariant.
LEMMA NextKeeps == IInv /\ [Next]_vars => IInv'
<1> SUFFICES ASSUME IInv, [Next]_vars PROVE IInv'
  OBVIOUS
<1>1. CASE Tick
  BY <1>1, TickKeeps
<1>2. CASE \E l \in Logins : LoginStep(l)
  BY <1>2, StartKeeps, OpenKeeps, WriteKeeps, ChmodKeeps, ReplaceKeeps, EndKeeps DEF LoginStep
<1>3. CASE UNCHANGED vars
  BY <1>3 DEF vars, fileVars, historyVars, IInv, TypeOK, TwoNames, Unborn, OverlapSeen, WritesNow,
     SoleWriter, LastRename, SoleLoginInstalls, Writing
<1> QED
  BY <1>1, <1>2, <1>3 DEF Next

\* The inductive invariant of the login's write function, under every overlap.
THEOREM InvariantHolds == Spec => []IInv
BY InitHolds, NextKeeps, PTL DEF Spec

\* TypeOK: no login is stamped with a time that has not come.
THEOREM TypeCorrect == Spec => []TypeOK
<1>1. IInv => TypeOK
  BY DEF IInv
<1> QED
  BY <1>1, InvariantHolds, PTL

\* The last login to rename that was alone has installed its own whole grant, with
\* the mode its chmod gave (make_token_write_func).
THEOREM SoleCorrect == Spec => []SoleLoginInstalls
<1>1. IInv => SoleLoginInstalls
  BY DEF IInv
<1> QED
  BY <1>1, InvariantHolds, PTL

\* token.json only holds less than a whole grant when logins have overlapped.
THEOREM TornCorrect == Spec => []TornNeedsOverlap
<1>1. IInv => TornNeedsOverlap
  BY DEF IInv, TypeOK, LastRename, SoleLoginInstalls, TornNeedsOverlap, Overlapped
<1> QED
  BY <1>1, InvariantHolds, PTL

-----------------------------------------------------------------------------
(* Logins that do not overlap do what TokenStore says of a login.          *)

\* While no logins have overlapped only a rename changes what a reader sees, and
\* the grant that is installed is that of a login which has ended.
LEMMA OnlyRenameShows ==
  ASSUME IInv, ~Overlapped, ~Overlapped', NEW l \in Logins,
         \/ Start(l) \/ Abandon(l) \/ Open(l) \/ Write(l) \/ WriteFails(l)
         \/ Chmod(l) \/ ReplaceFails(l) \/ Kill(l)
  PROVE  UNCHANGED <<Files, Installed>>
<1>1. /\ UNCHANGED <<token, clock>>
      /\ pc[l] # "ok" /\ pc'[l] # "ok" /\ \A m \in Logins \ {l} : pc'[m] = pc[m]
  BY DEF IInv, TypeOK, Start, Abandon, Open, Minted, Write, WriteFails, Chmod, ReplaceFails,
     Kill, Writing, Goto, fileVars
<1>2. \A m \in Logins \ {l} : minted'[m] = minted[m]
  BY DEF IInv, TypeOK, Start, Abandon, Open, Minted, Write, WriteFails, Chmod, ReplaceFails, Kill
<1>3. UNCHANGED Installed
  BY <1>1, <1>2 DEF Installed
<1>4. CASE token = None
  BY <1>1, <1>3, <1>4 DEF Files, AsFile
<1>5. CASE token # None
  <2>1. /\ last \in Logins /\ alone[last] /\ pc[last] = "ok"
        /\ token \in Logins /\ content[token] = last
        /\ \A m \in Logins : Writing(m) => fd[m] # token
    BY <1>5 DEF IInv, TypeOK, LastRename, SoleLoginInstalls, Overlapped
  <2>2. tmp' # token
    BY <1>1, <1>5, <2>1, OpenKeeps, StartKeeps, WriteKeeps, ChmodKeeps, EndKeeps DEF IInv, TwoNames
  <2>3. /\ content'[token] = content[token] /\ mtime'[token] = mtime[token]
        /\ secure'[token] = secure[token]
    BY <1>5, <2>1, <2>2 DEF IInv, TypeOK, TwoNames, Start, Abandon, Open, Minted, Write,
       WriteFails, Chmod, ReplaceFails, Kill, Writing, fileVars
  <2>4. minted'[last] = minted[last]
    BY <1>1, <1>2, <2>1
  <2>5. AsFile' = AsFile
    BY <1>1, <1>5, <2>1, <2>3, <2>4 DEF AsFile
  <2> QED
    BY <2>5, <1>3 DEF Files
<1> QED
  BY <1>4, <1>5

\* The rename is the whole LoginFlow: a grant of now, written now.
LEMMA RenameIsLogin ==
  ASSUME IInv, ~Overlapped, NEW l \in Logins, Replace(l)
  PROVE  Store!LoginFlow
<1>1. /\ tmp \in Logins /\ content[tmp] = l /\ mtime[tmp] = clock /\ minted[l] = clock
      /\ clock <= MaxClock /\ secure[tmp] \in BOOLEAN
  BY DEF IInv, TypeOK, SoleWriter, WritesNow, Replace, Writing, Overlapped
<1>2. /\ token' = tmp /\ UNCHANGED <<clock, content, secure, mtime, minted>>
      /\ pc' = [pc EXCEPT ![l] = "ok"]
  BY DEF Replace, Goto
<1>3. AsFile' = [created |-> clock, mtime |-> clock, secure |-> secure[tmp], json |-> TRUE]
  BY <1>1, <1>2 DEF AsFile
<1>4. Files' = [Files EXCEPT !["token.json"] =
        [created |-> clock, mtime |-> clock, secure |-> secure[tmp], json |-> TRUE]]
  BY <1>3 DEF Files
<1>5. Installed' = Installed \cup {clock}
  BY <1>1, <1>2 DEF Installed, IInv, TypeOK
<1> QED
  BY <1>1, <1>2, <1>4, <1>5 DEF Store!LoginFlow

\* ImplementsLoginFlow: the write function is atomic to whoever reads the file, as
\* TokenStore and all that is built on it assume.
THEOREM FlowCorrect == Spec => ImplementsLoginFlow
<1>1. IInv /\ [Next]_vars =>
        (Overlapped' \/ Store!LoginFlow \/ UNCHANGED <<Files, Installed>>)
  <2> SUFFICES ASSUME IInv, [Next]_vars, ~Overlapped'
               PROVE  Store!LoginFlow \/ UNCHANGED <<Files, Installed>>
    OBVIOUS
  <2>1. ~Overlapped
    BY DEF Overlapped, Next, vars, Tick, LoginStep, Start, Abandon, Open, Minted, Write,
       WriteFails, Chmod, Replace, ReplaceFails, Kill, historyVars
  <2>2. CASE Tick
    BY <2>2 DEF Tick, fileVars, Files, AsFile, Installed
  <2>3. ASSUME NEW l \in Logins, LoginStep(l)
        PROVE  Store!LoginFlow \/ UNCHANGED <<Files, Installed>>
    <3>1. CASE Replace(l)
      BY <2>1, <3>1, RenameIsLogin
    <3>2. CASE ~Replace(l)
      BY <2>1, <2>3, <3>2, OnlyRenameShows, Zenon DEF LoginStep
    <3> QED
      BY <3>1, <3>2
  <2>4. CASE UNCHANGED vars
    BY <2>4 DEF vars, fileVars, Files, AsFile, Installed
  <2> QED
    BY <2>2, <2>3, <2>4 DEF Next
<1> QED
  BY <1>1, InvariantHolds, PTL DEF Spec, ImplementsLoginFlow
=============================================================================
