--------------------------- MODULE TokenLifecycle ---------------------------
(***************************************************************************)
(* The programs that share token.json, put together: the auth CLI and the  *)
(* user (TokenStore), the scheduled health probe (HealthProbe), the        *)
(* servers with the client each one keeps (ClientSession) and their        *)
(* health_check (HealthCheck), and time.                                   *)
(***************************************************************************)
EXTENDS HealthProbe, HealthCheck

CONSTANT MaxGap  \* the schedule finishes a probe at least once in MaxGap units

ASSUME ScheduleAssumption == MaxGap \in Nat \ {0}

vars == <<storeVars, probeVars, sessionVars, health>>

TypeOK == StoreTypeOK /\ ProbeTypeOK /\ SessionTypeOK /\ CheckTypeOK

Init == StoreInit /\ ProbeInit /\ SessionInit /\ CheckInit

\* Time passes, but not past the probe's schedule, and not within the moment
\* between Schwab's answer to a refresh and schwab-py's write of the file.
Tick ==
  /\ clock < MaxClock
  /\ clock - probedAt < MaxGap
  /\ \A s \in Servers : call[s] # "write"
  /\ clock' = clock + 1
  /\ UNCHANGED <<tokenFile, granted, probeVars, sessionVars, health>>

User ==
  \/ LoginFlow
  \/ \E p \in Paths : RemoveToken(p) \/ ChmodToken(p)

Next ==
  \/ Tick
  \/ User /\ UNCHANGED <<probeVars, sessionVars, health>>
  \/ (ProbeStep \/ ProbeTokenAgeFails) /\ UNCHANGED <<sessionVars, health>>
  \/ (\E s \in Servers : SessionStep(s)) /\ UNCHANGED <<probeVars, health>>
  \/ (\E s \in Servers : CheckStep(s)) /\ UNCHANGED probeVars

Spec == Init /\ [][Next]_vars

\* Time passes (strongly: Tick's guard says that writes are short, not that they
\* can hold time up), the scheduler runs the probe to its end, and a call that a
\* server has begun is worked off.  Nothing obliges the user, the MCP host or
\* Schwab to do anything.
Fairness ==
  /\ SF_vars(Tick)
  /\ WF_vars(ProbeStep /\ UNCHANGED <<sessionVars, health>>)
  /\ \A s \in Servers :
       /\ WF_vars(CallStep(s) /\ UNCHANGED <<probeVars, health>>)
       /\ WF_vars(StatToken(s) /\ UNCHANGED probeVars)

FairSpec == Spec /\ Fairness

-----------------------------------------------------------------------------
(* Safety *)

\* A refresh is only written while its grant is alive, so the mtime of any
\* token file lies within the life of the grant in it.  This is what the mtime
\* fall-back of the probe rests on: it relates the file, the client the writing
\* server holds and the clock, over a login, a load, a grant and a write.
MtimeWithinLife ==
  \A p \in Paths : Exists(p) =>
    /\ tokenFile[p].created <= tokenFile[p].mtime
    /\ tokenFile[p].mtime <= clock
    /\ tokenFile[p].mtime < tokenFile[p].created + Lifetime

\* What a healthy exit of the probe is worth: on the primary path the grant had
\* at least Warn left.  On the mtime fall-back it may have been dead for up to
\* Lifetime - Warn, and never for longer.
HealthyMeansLife ==
  report.exit = Healthy =>
    /\ report.via \in {"schwab_py", "mtime_fallback"}
    /\ report.via = "schwab_py" => report.left >= Warn
    /\ report.via = "mtime_fallback" => report.left > Warn - Lifetime

\* The fall-back only errs towards health: when the probe read an age, by either
\* path, and raised an alarm, the grant really had less than Warn left (and less
\* than Critical for the critical alarm).
NoFalseAlarm ==
  report.via \in {"schwab_py", "mtime_fallback"} =>
    /\ report.exit = Expires24 => report.left < Warn
    /\ report.exit = Expired12 => report.left < Critical

\* The age that health_check shows errs in one direction too, whatever happened
\* to the file between its two looks: but for half of the thousandth of a day that
\* it rounds to, the token never has longer to live than it says, and it may have
\* been dead for less than a Lifetime.
HealthCheckEstimate ==
  \A s \in Servers : health[s].expiresIn # NoEstimate =>
    /\ 2 * (health[s].left - health[s].expiresIn) <= Grain
    /\ 2 * (health[s].expiresIn - health[s].left - Lifetime) < Grain
    /\ health[s].expiresIn <= Lifetime

\* Whatever order logins, refreshes, torn writes and restarts come in, every
\* file and every server holds a grant that a login really minted.
OnlyIssuedGrants ==
  /\ \A p \in Paths : Exists(p) => tokenFile[p].created \in granted
  /\ \A s \in Servers : client[s] # NoClient => client[s] \in granted

\* A token file goes back to an older grant only by the hand of a server that
\* has kept a client of that grant, and only while that grant lives: a dead
\* token never comes back over a newer one.
OnlyLiveGrantsReturn ==
  [][\A p \in Paths :
       (Exists(p) /\ Exists(p)' /\ tokenFile'[p].created < tokenFile[p].created) =>
         /\ Live(tokenFile'[p].created)
         /\ \E s \in Servers : client[s] = tokenFile'[p].created]_vars

\* docs/REGISTER.md 4.1: with the probe scheduled "you get warned before the
\* token dies instead of discovering it mid-session".  It holds of a probe that
\* got the age from schwab-py, as long as all logins fall in one unit (so that no
\* server holds an older grant than the file's): then no file is dead while the
\* last probe has called it healthy -- through refreshes, torn writes, removals
\* and the ticks between two looks at the file.
WarnedOnPrimaryPath ==
  (Exists(ProbePath) /\ ~Live(tokenFile[ProbePath].created)) =>
    ~(report.exit = Healthy /\ report.via = "schwab_py")

-----------------------------------------------------------------------------
(* Liveness *)

\* Once logins have stopped for good the probe ends up raising an alarm at every
\* run, even when it only ever has the mtime and servers keep refreshing.
EventuallyAlarms == <>[](report.exit # Healthy)

\* Every tool call that has begun ends, in an answer or with the server.
CallsEnd == \A s \in Servers : (call[s] # "idle") ~> (call[s] = "idle")

-----------------------------------------------------------------------------
(* What documents and comments of the repository say, checked by the runs  *)
(* that find the code doing something else                                 *)

\* docs/REGISTER.md: when the refresh token expires every call answers
\* refresh_token_expired, and re-running login_flow is the remedy.  So a call that
\* began with a token on disk that outlived it does not answer that.
ReLoginHeals ==
  \A s \in Servers : outcome[s] = "refresh_token_expired" => onDisk[s] = NoClient

\* tools/_common.py: the remedy for "OAuth token not found" is to run login_flow.
\* So a server with credentials does not answer that when login_flow has put a
\* live token there before the call.
LoginMakesAvailable ==
  \A s \in CredServers : outcome[s] = "unavailable" => onDisk[s] = NoClient

\* health.py: exit status 1 means less than 24 hours left, side effects never
\* raise, and any non-zero exit writes the marker.
NonZeroExitLeavesMarker ==
  (report.exit > Healthy /\ DesktopWritable) => marker = report.exit
=============================================================================
