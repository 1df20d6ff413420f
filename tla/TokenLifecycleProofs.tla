------------------------ MODULE TokenLifecycleProofs ------------------------
(***************************************************************************)
(* Proofs, for every lifetime, threshold, schedule and number of servers,  *)
(* of the safety properties of TokenLifecycle.                             *)
(***************************************************************************)
EXTENDS TokenLifecycle, TLAPS

\* A call past the load has a client, and one that writes has a live one: Tick
\* leaves it no time to die.
CallHasClient ==
  \A s \in Servers :
    /\ call[s] \in {"request", "write"} => client[s] \in Nat
    /\ call[s] = "write" => Live(client[s])

\* No grant comes from the future.
GrantsPast == \A g \in granted : g <= clock

FilesOK == StoreTypeOK /\ SessionTypeOK /\ OnlyIssuedGrants /\ GrantsPast /\ CallHasClient /\ MtimeWithinLife

\* The inductive invariant.
IInv == ProbeTypeOK /\ CheckTypeOK /\ FilesOK

USE StoreAssumption, ProbeAssumption, SessionAssumption, CheckAssumption, ScheduleAssumption

-----------------------------------------------------------------------------

\* The probe only reads: its steps leave the files and the servers alone.
LEMMA ProbeOnlyReads ==
  ASSUME ProbeStep \/ ProbeTokenAgeFails
  PROVE  UNCHANGED storeVars
BY DEF ProbeStep, ProbeTokenAgeFails, CheckExists, CheckPerms, StatPerms, ReportMode, Raise,
       ParseJson, ProbeTokenAge, ProbeMtime, Finish, GoOn

\* What leaves files and servers alone keeps what is true of them.
LEMMA FilesUnchanged ==
  ASSUME FilesOK, UNCHANGED <<storeVars, sessionVars>>
  PROVE  FilesOK'
BY DEF FilesOK, StoreTypeOK, SessionTypeOK, OnlyIssuedGrants, GrantsPast, CallHasClient,
       MtimeWithinLife, storeVars, sessionVars, Exists, Live

\* Time can pass: no call is about to write, so no refresh outlives its grant.
LEMMA TickKeepsFiles ==
  ASSUME FilesOK, Tick
  PROVE  FilesOK'
BY DEF FilesOK, StoreTypeOK, SessionTypeOK, OnlyIssuedGrants, GrantsPast, CallHasClient,
       MtimeWithinLife, storeVars, sessionVars, Exists, Live, Tick, File

\* A login (the write function's os.replace) installs a new grant, stamped now.
LEMMA LoginKeepsFiles ==
  ASSUME FilesOK, LoginFlow, UNCHANGED sessionVars
  PROVE  FilesOK'
BY DEF FilesOK, StoreTypeOK, SessionTypeOK, OnlyIssuedGrants, GrantsPast, CallHasClient,
       MtimeWithinLife, storeVars, sessionVars, Exists, Live, LoginFlow, File

\* A deleted file says nothing.
LEMMA RemoveKeepsFiles ==
  ASSUME FilesOK, NEW p \in Paths, RemoveToken(p), UNCHANGED sessionVars
  PROVE  FilesOK'
BY DEF FilesOK, StoreTypeOK, SessionTypeOK, OnlyIssuedGrants, GrantsPast, CallHasClient,
       MtimeWithinLife, storeVars, sessionVars, Exists, Live, RemoveToken, File

\* What chmod leaves of a file's record.
LEMMA ChmodFile ==
  ASSUME NEW f \in File
  PROVE  /\ [f EXCEPT !.secure = TRUE] \in File
         /\ [f EXCEPT !.secure = TRUE].created = f.created
         /\ [f EXCEPT !.secure = TRUE].mtime = f.mtime
BY DEF File

\* chmod 600 changes neither the grant nor the mtime of a file.
LEMMA ChmodKeepsFiles ==
  ASSUME FilesOK, NEW p \in Paths, ChmodToken(p), UNCHANGED sessionVars
  PROVE  FilesOK'
<1> DEFINE f == [tokenFile[p] EXCEPT !.secure = TRUE]
<1>1. tokenFile[p] \in File
  BY DEF FilesOK, StoreTypeOK, ChmodToken, Exists
<1>2. f \in File /\ f.created = tokenFile[p].created /\ f.mtime = tokenFile[p].mtime
  BY <1>1, ChmodFile
<1>3. /\ tokenFile' = [tokenFile EXCEPT ![p] = [tokenFile[p] EXCEPT !.secure = TRUE]]
      /\ UNCHANGED <<clock, granted>>
  BY Zenon DEF ChmodToken
<1>4. tokenFile' = [tokenFile EXCEPT ![p] = f]
  BY <1>3
<1>5. Exists(p)
  BY DEF ChmodToken
<1> HIDE DEF f
<1> QED
  BY <1>1, <1>2, <1>3, <1>4, <1>5 DEF FilesOK, StoreTypeOK, SessionTypeOK, OnlyIssuedGrants, GrantsPast,
     CallHasClient, MtimeWithinLife, sessionVars, Exists, Live

\* A server's step (get_client, a request, schwab-py's rewrite of the file) only
\* ever writes the grant its client holds, and only while that lives.
LEMMA SessionKeepsFiles ==
  ASSUME FilesOK, NEW s \in Servers, SessionStep(s)
  PROVE  FilesOK'
<1> USE DEF FilesOK, StoreTypeOK, SessionTypeOK, OnlyIssuedGrants, GrantsPast, CallHasClient,
       MtimeWithinLife, storeVars, sessionVars, Exists, Live, CallSteps, Outcomes, ApiOutcomes
<1>0. GrantOnDisk \in Nat \cup {NoClient}
  BY DEF GrantOnDisk, FileLive, File
<1>1. CASE UseSingleton(s)
  BY <1>0, <1>1 DEF UseSingleton, Begin, Goto
<1>2. CASE BuildClient(s)
  <2>1. CASE Begin(s, "load", "none")
    BY <1>0, <2>1 DEF Begin, Goto
  <2>2. CASE Begin(s, "idle", "unavailable")
    BY <1>0, <2>2 DEF Begin, Goto
  <2> QED
    BY <1>2, <2>1, <2>2 DEF BuildClient
<1>3. CASE LoadToken(s)
  BY <1>3 DEF LoadToken, Answer, Goto, File
<1>4. CASE Respond(s)
  BY <1>4 DEF Respond, Answer, Goto
<1>5. CASE RespondExpired(s)
  BY <1>5 DEF RespondExpired, Answer, Goto
<1>6. CASE RefreshGranted(s)
  BY <1>6 DEF RefreshGranted, Goto
<1>7. CASE WriteRefreshed(s)
  BY <1>7 DEF WriteRefreshed, WriteInPlace, Answer, Goto, File
<1>8. CASE Restart(s)
  BY <1>8 DEF Restart, Exit, Goto
<1>9. CASE RestartTearsFile(s)
  BY <1>9 DEF RestartTearsFile, WriteInPlace, Exit, Goto, File
<1> QED
  BY <1>1, <1>2, <1>3, <1>4, <1>5, <1>6, <1>7, <1>8, <1>9 DEF SessionStep, CallStep

\* health_check only reads as well, and keeps its server from nothing but a call.
LEMMA CheckKeepsFiles ==
  ASSUME FilesOK, NEW s \in Servers, CheckStep(s)
  PROVE  FilesOK' /\ UNCHANGED storeVars
<1> USE DEF FilesOK, StoreTypeOK, SessionTypeOK, OnlyIssuedGrants, GrantsPast, CallHasClient,
       MtimeWithinLife, storeVars, Exists, Live, CallSteps, Goto
<1>1. CASE LookForToken(s)
  BY <1>1 DEF LookForToken
<1>2. CASE StatToken(s)
  BY <1>2 DEF StatToken
<1> QED
  BY <1>1, <1>2 DEF CheckStep

-----------------------------------------------------------------------------
(* What the probe and health_check report.                                 *)

Reported == HealthyMeansLife /\ NoFalseAlarm /\ HealthCheckEstimate

\* What the threshold test says about the age it is given.
LEMMA ClassifySound ==
  ASSUME NEW left \in Int
  PROVE  /\ Classify(left) \in {Healthy, Expires24, Expired12}
         /\ Classify(left) = Healthy => left >= Warn
         /\ Classify(left) = Expires24 => left < Warn
         /\ Classify(left) = Expired12 => left < Critical
BY DEF Classify, Healthy, Expires24, Expired12

\* The age the probe computes from a past moment.
LEMMA ExpiresInPast ==
  ASSUME StoreTypeOK, NEW since \in Nat, since <= clock
  PROVE  ExpiresIn(since) \in Int /\ ExpiresIn(since) = since + Lifetime - clock
BY DEF ExpiresIn, StoreTypeOK

\* Whatever step of health.run comes next, what it reports is sound: the states of
\* the file it has looked at before do not matter, only the one it reads the age of.
LEMMA ProbeKeepsReport ==
  ASSUME IInv, Reported, ProbeStep \/ ProbeTokenAgeFails
  PROVE  ProbeTypeOK' /\ (HealthyMeansLife /\ NoFalseAlarm)'
<1> USE DEF ProbeTypeOK, ProbeSteps, Bases, Reported, HealthyMeansLife, NoFalseAlarm,
       Healthy, Expires24, Expired12, Missing, Malformed, Insecure, Raised, NoReport
<1>0. clock \in Nat /\ probedAt \in Nat /\ ProbeTypeOK
  BY DEF IInv, FilesOK, StoreTypeOK
<1>1. ASSUME NEW step \in ProbeSteps, GoOn(step)
      PROVE  ProbeTypeOK' /\ (HealthyMeansLife /\ NoFalseAlarm)'
  BY <1>0, <1>1 DEF GoOn
<1>2. ASSUME NEW exit \in {Missing, Malformed, Insecure}, Finish(exit, "file_state", 0)
      PROVE  ProbeTypeOK' /\ (HealthyMeansLife /\ NoFalseAlarm)'
  BY <1>0, <1>2 DEF Finish, WriteMarker
<1>3. CASE CheckExists
  BY <1>1, <1>2, <1>3 DEF CheckExists
<1>4. CASE CheckPerms
  BY <1>1, <1>4 DEF CheckPerms
<1>5. ASSUME Raise PROVE ProbeTypeOK' /\ (HealthyMeansLife /\ NoFalseAlarm)'
  BY <1>0, <1>5 DEF Raise
<1>11. CASE StatPerms
  BY <1>1, <1>5, <1>11 DEF StatPerms
<1>12. CASE ReportMode
  BY <1>2, <1>5, <1>12 DEF ReportMode
<1>6. CASE ParseJson
  BY <1>1, <1>2, <1>6 DEF ParseJson
<1> DEFINE f == tokenFile[ProbePath]
<1>7. ASSUME Exists(ProbePath)
      PROVE  /\ f.created \in Nat /\ f.mtime \in Nat /\ TimeLeft(ProbePath) \in Int
             /\ f.created <= f.mtime /\ f.mtime <= clock /\ f.mtime < f.created + Lifetime
             /\ ExpiresIn(f.created) \in Int /\ ExpiresIn(f.created) = TimeLeft(ProbePath)
             /\ ExpiresIn(f.mtime) \in Int
             /\ ExpiresIn(f.mtime) >= TimeLeft(ProbePath)
             /\ ExpiresIn(f.mtime) < TimeLeft(ProbePath) + Lifetime
  <2>1. f \in File
    BY <1>7 DEF IInv, FilesOK, StoreTypeOK, Exists
  <2>2. f.created \in Nat /\ f.mtime \in Nat
    BY <2>1 DEF File
  <2>3. f.created <= f.mtime /\ f.mtime <= clock /\ f.mtime < f.created + Lifetime
    BY <1>7 DEF IInv, FilesOK, MtimeWithinLife
  <2>4. StoreTypeOK /\ f.created <= clock
    BY <1>0, <2>2, <2>3 DEF IInv, FilesOK
  <2>5. /\ ExpiresIn(f.created) \in Int /\ ExpiresIn(f.created) = f.created + Lifetime - clock
        /\ ExpiresIn(f.mtime) \in Int /\ ExpiresIn(f.mtime) = f.mtime + Lifetime - clock
    BY <2>2, <2>3, <2>4, ExpiresInPast
  <2> HIDE DEF f
  <2>6. TimeLeft(ProbePath) = f.created + Lifetime - clock
    BY DEF TimeLeft, f
  <2> QED
    BY <1>0, <2>2, <2>3, <2>5, <2>6
<1>8. CASE ProbeTokenAge
  <2>1. CASE GoOn("mtime")
    BY <1>1, <2>1
  <2>2. CASE Exists(ProbePath) /\ Finish(Classify(ExpiresIn(f.created)), "schwab_py", TimeLeft(ProbePath))
    BY <1>0, <1>7, <2>2, ClassifySound DEF Finish, WriteMarker
  <2> QED
    BY <1>8, <2>1, <2>2 DEF ProbeTokenAge
<1>9. CASE ProbeTokenAgeFails
  BY <1>1, <1>9 DEF ProbeTokenAgeFails
<1>10. CASE ProbeMtime
  <2>1. CASE Finish(Expired12, "probe_failed", 0)
    BY <1>0, <2>1 DEF Finish, WriteMarker
  <2>2. CASE Exists(ProbePath) /\ Finish(Classify(ExpiresIn(f.mtime)), "mtime_fallback", TimeLeft(ProbePath))
    BY <1>0, <1>7, <2>2, ClassifySound DEF Finish, WriteMarker
  <2> QED
    BY <1>10, <2>1, <2>2 DEF ProbeMtime
<1> QED
  BY <1>3, <1>4, <1>6, <1>8, <1>9, <1>10, <1>11, <1>12 DEF ProbeStep

\* A rounded age is no further from the age than half of what it is rounded to.
LEMMA RoundedNear ==
  ASSUME NEW age \in Nat, NEW m \in Rounded(age)
  PROVE  m \in Nat /\ 2 * m <= 2 * age + Grain /\ 2 * age <= 2 * m + Grain
BY DEF Rounded

\* The life that AnswerCheck records, and the estimate it is recorded with.
LEMMA CheckKeepsReport ==
  ASSUME IInv, HealthCheckEstimate, NEW s \in Servers, CheckStep(s)
  PROVE  CheckTypeOK' /\ HealthCheckEstimate'
<1> USE DEF CheckTypeOK, CheckStatuses, HealthCheckEstimate
<1>0. clock \in Nat /\ CheckTypeOK
  BY DEF IInv, FilesOK, StoreTypeOK
<1>1. ASSUME NEW r \in [status: CheckStatuses, expiresIn: Int \cup {NoEstimate}, left: Int],
             health' = [health EXCEPT ![s] = r],
             r.expiresIn # NoEstimate =>
               /\ 2 * (r.left - r.expiresIn) <= Grain
               /\ 2 * (r.expiresIn - r.left - Lifetime) < Grain
               /\ r.expiresIn <= Lifetime
      PROVE  CheckTypeOK' /\ HealthCheckEstimate'
  BY <1>0, <1>1
<1>2. ASSUME UNCHANGED health PROVE CheckTypeOK' /\ HealthCheckEstimate'
  BY <1>0, <1>2
<1>3. CASE LookForToken(s)
  <2>1. CASE AnswerCheck(s, FALSE, NoEstimate, 0)
    <3> DEFINE r == [status |-> Status(s, FALSE), expiresIn |-> NoEstimate, left |-> 0]
    <3>1. r \in [status: CheckStatuses, expiresIn: Int \cup {NoEstimate}, left: Int]
      BY DEF Status
    <3>2. r.expiresIn = NoEstimate /\ health' = [health EXCEPT ![s] = r]
      BY <2>1 DEF AnswerCheck
    <3> HIDE DEF r
    <3> QED
      BY <1>1, <3>1, <3>2
  <2> QED
    BY <1>2, <1>3, <2>1 DEF LookForToken
<1>4. CASE StatToken(s)
  <2>1. CASE ~Exists(CheckPath)
    <3> DEFINE r == [status |-> Status(s, TRUE), expiresIn |-> NoEstimate, left |-> 0]
    <3>1. r \in [status: CheckStatuses, expiresIn: Int \cup {NoEstimate}, left: Int]
      BY DEF Status
    <3>2. r.expiresIn = NoEstimate /\ health' = [health EXCEPT ![s] = r]
      BY <1>4, <2>1 DEF StatToken, AnswerCheck
    <3> HIDE DEF r
    <3> QED
      BY <1>1, <3>1, <3>2
  <2>2. CASE Exists(CheckPath)
    <3> DEFINE f == tokenFile[CheckPath]
               l == f.created + Lifetime - clock
    <3>1. f \in File /\ f.created \in Nat /\ f.mtime \in Nat
      BY <2>2 DEF IInv, FilesOK, StoreTypeOK, Exists, File
    <3>2. f.created <= f.mtime /\ f.mtime <= clock /\ f.mtime < f.created + Lifetime
      BY <2>2 DEF IInv, FilesOK, MtimeWithinLife
    <3>3. AgeOf(CheckPath) = clock - f.mtime
      BY <1>0, <3>1, <3>2 DEF AgeOf
    <3>4. AgeOf(CheckPath) \in Nat
      BY <1>0, <3>1, <3>2, <3>3
    <3>5. PICK age \in Rounded(AgeOf(CheckPath)) : AnswerCheck(s, TRUE, Lifetime - age, l)
      BY <1>4, <2>2 DEF StatToken
    <3> DEFINE e == Lifetime - age
               r == [status |-> Status(s, TRUE), expiresIn |-> e, left |-> l]
    <3>6. /\ age \in Nat
          /\ 2 * age <= 2 * (clock - f.mtime) + Grain
          /\ 2 * (clock - f.mtime) <= 2 * age + Grain
      BY <3>3, <3>4, RoundedNear
    <3>7. health' = [health EXCEPT ![s] = r]
      BY <3>5 DEF AnswerCheck
    <3>8. Status(s, TRUE) \in CheckStatuses
      BY DEF Status
    <3>9. /\ e \in Int /\ l \in Int
          /\ 2 * (l - e) <= Grain /\ 2 * (e - l - Lifetime) < Grain /\ e <= Lifetime
      <4> HIDE DEF f
      <4> QED
        BY <1>0, <3>1, <3>2, <3>6 DEF l, e
    <3>10. /\ r \in [status: CheckStatuses, expiresIn: Int \cup {NoEstimate}, left: Int]
           /\ r.left = l /\ r.expiresIn = e
      <4> HIDE DEF e, l
      <4> QED
        BY <3>8, <3>9
    <3> HIDE DEF r
    <3>11. \/ r.expiresIn = NoEstimate
           \/ /\ 2 * (r.left - r.expiresIn) <= Grain
              /\ 2 * (r.expiresIn - r.left - Lifetime) < Grain
              /\ r.expiresIn <= Lifetime
      BY <3>9, <3>10
    <3> QED
      BY <1>1, <3>7, <3>10, <3>11
  <2> QED
    BY <2>1, <2>2
<1> QED
  BY <1>3, <1>4 DEF CheckStep

-----------------------------------------------------------------------------
(* The invariant, and what follows from it.                                *)

\* The invariant holds at first ...
LEMMA InitInv == Init => IInv /\ Reported
BY DEF Init, IInv, Reported, FilesOK, StoreInit, StoreTypeOK, ProbeInit, ProbeTypeOK, ProbeSteps,
   Bases, SessionInit, SessionTypeOK, CallSteps, Outcomes, ApiOutcomes, OnlyIssuedGrants, GrantsPast,
   CallHasClient, MtimeWithinLife, HealthyMeansLife, NoFalseAlarm, Healthy, Expires24, Expired12,
   NoReport, NoMarker, Exists, CheckInit, CheckTypeOK, CheckStatuses, HealthCheckEstimate

\* ... and every step of any of the programs keeps it.
LEMMA NextInv == IInv /\ Reported /\ [Next]_vars => (IInv /\ Reported)'
<1> SUFFICES ASSUME IInv, Reported, [Next]_vars PROVE IInv' /\ Reported'
  OBVIOUS
<1>0. FilesOK /\ ProbeTypeOK /\ CheckTypeOK
  BY DEF IInv
<1>1. ASSUME UNCHANGED probeVars PROVE ProbeTypeOK' /\ (HealthyMeansLife /\ NoFalseAlarm)'
  BY <1>0, <1>1 DEF probeVars, ProbeTypeOK, Reported, HealthyMeansLife, NoFalseAlarm
<1>2. ASSUME UNCHANGED health PROVE CheckTypeOK' /\ HealthCheckEstimate'
  BY <1>0, <1>2 DEF CheckTypeOK, Reported, HealthCheckEstimate
<1>3. CASE Tick
  BY <1>0, <1>1, <1>2, <1>3, TickKeepsFiles DEF Tick, IInv, Reported, probeVars
<1>4. CASE User /\ UNCHANGED <<probeVars, sessionVars, health>>
  BY <1>0, <1>1, <1>2, <1>4, LoginKeepsFiles, RemoveKeepsFiles, ChmodKeepsFiles DEF User, IInv, Reported
<1>5. CASE (ProbeStep \/ ProbeTokenAgeFails) /\ UNCHANGED <<sessionVars, health>>
  BY <1>0, <1>2, <1>5, ProbeOnlyReads, FilesUnchanged, ProbeKeepsReport DEF IInv, Reported
<1>6. CASE (\E s \in Servers : SessionStep(s)) /\ UNCHANGED <<probeVars, health>>
  BY <1>0, <1>1, <1>2, <1>6, SessionKeepsFiles DEF IInv, Reported
<1>7. CASE (\E s \in Servers : CheckStep(s)) /\ UNCHANGED probeVars
  BY <1>0, <1>1, <1>7, CheckKeepsFiles, CheckKeepsReport DEF IInv, Reported
<1>8. CASE UNCHANGED vars
  BY <1>0, <1>1, <1>2, <1>8, FilesUnchanged DEF vars, IInv, Reported
<1> QED
  BY <1>3, <1>4, <1>5, <1>6, <1>7, <1>8 DEF Next

\* The inductive invariant, with what the probe reports.
THEOREM InvariantHolds == Spec => [](IInv /\ Reported)
BY InitInv, NextInv, PTL DEF Spec

\* Every variable keeps its type.
THEOREM TypeCorrect == Spec => []TypeOK
<1>1. IInv => TypeOK
  BY DEF IInv, FilesOK, TypeOK
<1> QED
  BY <1>1, InvariantHolds, PTL

\* The mtime of any token file lies within the life of the grant in it
\* (make_token_write_func's install, schwab-py's rewrite, client kept by get_client).
THEOREM MtimeCorrect == Spec => []MtimeWithinLife
<1>1. IInv => MtimeWithinLife
  BY DEF IInv, FilesOK
<1> QED
  BY <1>1, InvariantHolds, PTL

\* Files and servers only hold grants that a login minted.
THEOREM IssuedCorrect == Spec => []OnlyIssuedGrants
<1>1. IInv => OnlyIssuedGrants
  BY DEF IInv, FilesOK
<1> QED
  BY <1>1, InvariantHolds, PTL

\* A healthy exit means at least Warn left on the primary path of health.run and
\* more than Warn - Lifetime on its mtime fall-back.
THEOREM HealthyCorrect == Spec => []HealthyMeansLife
<1>1. Reported => HealthyMeansLife
  BY DEF Reported
<1> QED
  BY <1>1, InvariantHolds, PTL

\* An alarm of health.run that rests on an age is never false.
THEOREM AlarmCorrect == Spec => []NoFalseAlarm
<1>1. Reported => NoFalseAlarm
  BY DEF Reported
<1> QED
  BY <1>1, InvariantHolds, PTL

\* What health_check shows of a token's life is too little by no more than half of
\* what it rounds to, and too much by less than that and a Lifetime.
THEOREM EstimateCorrect == Spec => []HealthCheckEstimate
<1>1. Reported => HealthCheckEstimate
  BY DEF Reported
<1> QED
  BY <1>1, InvariantHolds, PTL

\* A step that puts an older grant back in a file.
OlderReturns(p) == Exists(p) /\ Exists(p)' /\ tokenFile'[p].created < tokenFile[p].created

\* Only WriteRefreshed and RestartTearsFile can make such a step.
LEMMA OlderReturnsByServer ==
  ASSUME IInv, [Next]_vars, NEW p \in Paths, OlderReturns(p)
  PROVE  /\ Live(tokenFile'[p].created)
         /\ \E s \in Servers : client[s] = tokenFile'[p].created
<1> USE DEF OlderReturns, Exists
<1>0. /\ FilesOK /\ StoreTypeOK /\ tokenFile[p] \in File
      /\ tokenFile[p].created \in Nat /\ tokenFile[p].created <= clock
  BY DEF IInv, FilesOK, StoreTypeOK, File, GrantsPast, OnlyIssuedGrants
<1>1. tokenFile' # tokenFile
  BY <1>0
<1>2. CASE LoginFlow
  BY <1>0, <1>2 DEF LoginFlow, StoreTypeOK
<1>3. ASSUME NEW q \in Paths, RemoveToken(q) PROVE FALSE
  BY <1>0, <1>3 DEF RemoveToken, StoreTypeOK
<1>4. ASSUME NEW q \in Paths, ChmodToken(q) PROVE FALSE
  <2>1. tokenFile' = [tokenFile EXCEPT ![q] = [tokenFile[q] EXCEPT !.secure = TRUE]]
    BY <1>4, Zenon DEF ChmodToken
  <2>2. tokenFile'[p] = tokenFile[p] \/ tokenFile'[p] = [tokenFile[p] EXCEPT !.secure = TRUE]
    BY <1>0, <2>1, Zenon DEF StoreTypeOK
  <2>3. [tokenFile[p] EXCEPT !.secure = TRUE].created = tokenFile[p].created
    BY <1>0, ChmodFile, Zenon
  <2>4. tokenFile'[p].created = tokenFile[p].created
    BY <2>2, <2>3, Zenon
  <2> QED
    BY <1>0, <2>4
<1>5. ASSUME NEW s \in Servers, NEW whole \in BOOLEAN, call[s] = "write",
             WriteInPlace(ServerPath, client[s], whole)
      PROVE  Live(tokenFile'[p].created) /\ client[s] = tokenFile'[p].created
  BY <1>0, <1>5 DEF WriteInPlace, FilesOK, CallHasClient, StoreTypeOK, File
<1>6. CASE \E s \in Servers : SessionStep(s)
  <2>1. PICK s \in Servers : SessionStep(s)
    BY <1>6
  <2>2. CASE WriteRefreshed(s)
    BY <1>5, <2>2 DEF WriteRefreshed
  <2>3. CASE RestartTearsFile(s)
    BY <1>5, <2>3 DEF RestartTearsFile
  <2> QED
    BY <1>1, <2>1, <2>2, <2>3 DEF SessionStep, CallStep, UseSingleton, BuildClient, Begin,
       LoadToken, Respond, RespondExpired, RefreshGranted, Restart, storeVars
<1>7. CASE (ProbeStep \/ ProbeTokenAgeFails) /\ UNCHANGED <<sessionVars, health>>
  BY <1>1, <1>7, ProbeOnlyReads DEF storeVars
<1>8. CASE \E s \in Servers : CheckStep(s)
  BY <1>0, <1>1, <1>8, CheckKeepsFiles DEF storeVars
<1> QED
  BY <1>1, <1>2, <1>3, <1>4, <1>6, <1>7, <1>8 DEF Next, User, Tick, vars, storeVars

\* An older grant comes back to a file only by a server that still holds it, and
\* only while it lives.
THEOREM ReturnCorrect == Spec => OnlyLiveGrantsReturn
<1>1. IInv /\ [Next]_vars =>
        [\A p \in Paths :
          (Exists(p) /\ Exists(p)' /\ tokenFile'[p].created < tokenFile[p].created) =>
            /\ Live(tokenFile'[p].created)
            /\ \E s \in Servers : client[s] = tokenFile'[p].created]_vars
  BY OlderReturnsByServer DEF OlderReturns
<1> QED
  BY <1>1, InvariantHolds, PTL DEF Spec, OnlyLiveGrantsReturn

-----------------------------------------------------------------------------
(* A schedule tighter than the warning threshold warns in time, as long as *)
(* every login falls in one unit.                                          *)

OneGrant == LastLogin = 0 /\ MaxGap < Warn

Scheduled ==
  /\ probedAt <= clock
  /\ clock <= probedAt + MaxGap
  /\ granted \subseteq {0}
  /\ (report.exit = Healthy /\ report.via = "schwab_py") => probedAt + Warn <= Lifetime

\* The scheduled probe keeps up: a healthy report on the primary path is never
\* older than MaxGap, and the file's only grant was made at 0.
LEMMA ScheduledNext == OneGrant /\ IInv /\ Reported /\ Scheduled /\ [Next]_vars => Scheduled'
<1> SUFFICES ASSUME OneGrant, IInv, Reported, Scheduled, [Next]_vars PROVE Scheduled'
  OBVIOUS
<1> USE DEF Scheduled
<1>0. clock \in Nat /\ probedAt \in Nat /\ StoreTypeOK
  BY DEF IInv, FilesOK, StoreTypeOK, ProbeTypeOK
<1>1. CASE Tick
  BY <1>0, <1>1 DEF Tick, probeVars
<1>2. CASE User /\ UNCHANGED <<probeVars, sessionVars, health>>
  BY <1>0, <1>2 DEF User, LoginFlow, RemoveToken, ChmodToken, probeVars, OneGrant
<1>3. ASSUME UNCHANGED <<clock, granted, report, probedAt>> PROVE Scheduled'
  BY <1>3
<1>4. CASE (ProbeStep \/ ProbeTokenAgeFails) /\ UNCHANGED <<sessionVars, health>>
  <2>1. UNCHANGED <<clock, granted>>
    BY <1>4, ProbeOnlyReads DEF storeVars
  <2>2. ASSUME NEW step, GoOn(step) PROVE Scheduled'
    BY <1>3, <2>2 DEF GoOn, storeVars
  <2>3. ASSUME probedAt' = clock, report'.via # "schwab_py" PROVE Scheduled'
    BY <1>0, <2>1, <2>3
  <2>4. ASSUME NEW exit, NEW via, via # "schwab_py", NEW left, Finish(exit, via, left) PROVE Scheduled'
    BY <2>3, <2>4 DEF Finish
  <2>5. CASE ProbeTokenAge /\ report'.via = "schwab_py" /\ ~GoOn("mtime")
    <3>1. /\ Exists(ProbePath) /\ probedAt' = clock
          /\ report'.exit = Classify(ExpiresIn(tokenFile[ProbePath].created))
      BY <2>5 DEF ProbeTokenAge, Finish
    <3>2. tokenFile[ProbePath].created = 0
      BY <3>1 DEF IInv, FilesOK, OnlyIssuedGrants
    <3>3. ExpiresIn(0) \in Int /\ ExpiresIn(0) = Lifetime - clock
      BY <1>0, ExpiresInPast
    <3> QED
      BY <1>0, <2>1, <3>1, <3>2, <3>3, ClassifySound
  <2>6. CASE ProbeTokenAge
    BY <2>2, <2>3, <2>5, <2>6 DEF ProbeTokenAge, Finish
  <2>7. ASSUME Raise PROVE Scheduled'
    BY <2>3, <2>7 DEF Raise
  <2>8. CASE StatPerms
    BY <2>2, <2>7, <2>8 DEF StatPerms
  <2>9. CASE ReportMode
    BY <2>4, <2>7, <2>9 DEF ReportMode
  <2> QED
    BY <1>4, <2>2, <2>4, <2>6, <2>8, <2>9 DEF ProbeStep, CheckExists, CheckPerms, ParseJson,
       ProbeTokenAgeFails, ProbeMtime
<1>5. CASE (\E s \in Servers : SessionStep(s)) /\ UNCHANGED <<probeVars, health>>
  <2>1. UNCHANGED <<clock, granted>>
    BY <1>5 DEF SessionStep, CallStep, UseSingleton, BuildClient, Begin, LoadToken, Respond,
       RespondExpired, RefreshGranted, Restart, WriteRefreshed, RestartTearsFile, WriteInPlace, storeVars
  <2> QED
    BY <1>3, <1>5, <2>1 DEF probeVars
<1>6. CASE (\E s \in Servers : CheckStep(s)) /\ UNCHANGED probeVars
  BY <1>3, <1>6, CheckKeepsFiles DEF IInv, storeVars, probeVars
<1>7. CASE UNCHANGED vars
  BY <1>3, <1>7 DEF vars, storeVars, probeVars
<1> QED
  BY <1>1, <1>2, <1>4, <1>5, <1>6, <1>7 DEF Next

\* With one grant and a probe that ends at least once in less than the warning
\* threshold, no token is dead while the last primary-path probe said healthy.
THEOREM WarnedCorrect ==
  ASSUME OneGrant
  PROVE  Spec => []WarnedOnPrimaryPath
<1>1. Init => Scheduled
  BY DEF Init, StoreInit, ProbeInit, Scheduled, NoReport, Healthy
<1>2. IInv /\ Reported /\ Scheduled /\ [Next]_vars => Scheduled'
  BY ScheduledNext
<1>3. IInv /\ Scheduled => WarnedOnPrimaryPath
  <2> SUFFICES ASSUME IInv, Scheduled, Exists(ProbePath), ~Live(tokenFile[ProbePath].created)
               PROVE  ~(report.exit = Healthy /\ report.via = "schwab_py")
    BY DEF WarnedOnPrimaryPath
  <2>1. tokenFile[ProbePath].created = 0
    BY DEF IInv, FilesOK, OnlyIssuedGrants, Scheduled
  <2>2. clock \in Nat /\ probedAt \in Nat
    BY DEF IInv, FilesOK, StoreTypeOK, ProbeTypeOK
  <2> QED
    BY <2>1, <2>2 DEF Live, Scheduled, OneGrant
<1> QED
  BY <1>1, <1>2, <1>3, InvariantHolds, PTL DEF Spec
=============================================================================
