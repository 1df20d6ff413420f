---------------------------- MODULE HealthProbe ----------------------------
(***************************************************************************)
(* The cron health probe, health.run: one action per look at the token     *)
(* file, so that the other programs can act between two looks.             *)
(***************************************************************************)
EXTENDS TokenStore

CONSTANTS
  ProbePath,       \* resolve_token_path: --config-dir, then the override, then the default
  ProbeCreds,      \* are the API key and secret in the probe's environment?
  Warn,            \* WARN_THRESHOLD (24 hours)
  Critical,        \* CRITICAL_THRESHOLD (12 hours)
  DesktopWritable  \* is there a ~/Desktop that can be written to?

ASSUME ProbeAssumption ==
  /\ ProbePath \in Paths
  /\ ProbeCreds \in BOOLEAN
  /\ Warn \in Nat
  /\ Critical \in Nat
  /\ Critical <= Warn
  /\ Warn < Lifetime
  /\ DesktopWritable \in BOOLEAN

VARIABLES
  probe,     \* where the probe is in run()
  report,    \* the last finished probe: its exit code, what it was based on, and
             \* (history) the life the grant it looked at really had left
  probedAt,  \* when it finished
  marker     \* what ~/Desktop/SCHWAB_POSITIONS_REAUTH_NEEDED.md says, or NoMarker

probeVars == <<probe, report, probedAt, marker>>

\* The exit codes (HealthExit), and Python's own for an uncaught exception,
\* which is 1 as well.
Healthy   == 0
Expires24 == 1
Expired12 == 2
Missing   == 3
Malformed == 4
Insecure  == 5
Raised    == 1

NoReport == -1
NoMarker == -1

ProbeSteps == {"start", "perms", "lstat", "mode", "parse", "token_age", "mtime"}
Bases == {"none", "file_state", "schwab_py", "mtime_fallback", "probe_failed", "raised"}

ProbeTypeOK ==
  /\ probe \in ProbeSteps
  /\ report \in [exit: -1..5, via: Bases, left: Int]
  /\ probedAt \in Nat
  /\ marker \in -1..5

ProbeInit ==
  /\ probe = "start"
  /\ report = [exit |-> NoReport, via |-> "none", left |-> 0]
  /\ probedAt = 0
  /\ marker = NoMarker

\* compute_expires_in and its twin in the mtime path: an age below zero counts
\* as zero.
ExpiresIn(since) ==
  Lifetime - (IF clock >= since THEN clock - since ELSE 0)

\* Faults: each threshold one unit too low, and one unit too high.
ClassifyLate(expiresIn) ==
  IF expiresIn < Critical - 1 THEN Expired12
  ELSE IF expiresIn < Warn - 1 THEN Expires24
  ELSE Healthy

ClassifyEarly(expiresIn) ==
  IF expiresIn <= Critical THEN Expired12
  ELSE IF expiresIn <= Warn THEN Expires24
  ELSE Healthy

\* classify
Classify(expiresIn) ==
  IF expiresIn < Critical THEN Expired12
  ELSE IF expiresIn < Warn THEN Expires24
  ELSE Healthy

\* _write_desktop_marker gives up without a Desktop, and on an OSError.
WriteMarker(exit) == marker' = IF DesktopWritable THEN exit ELSE marker

\* The end of run(): every alarm overwrites the marker, a healthy exit leaves it.
Finish(exit, via, left) ==
  /\ probe' = "start"
  /\ report' = [exit |-> exit, via |-> via, left |-> left]
  /\ probedAt' = clock
  /\ IF exit = Healthy THEN UNCHANGED marker ELSE WriteMarker(exit)
  /\ UNCHANGED storeVars

GoOn(step) ==
  /\ probe' = step
  /\ UNCHANGED <<report, probedAt, marker, storeVars>>

CheckExists ==
  /\ probe = "start"
  /\ IF Exists(ProbePath) THEN GoOn("perms") ELSE Finish(Missing, "file_state", 0)

\* An exception that nothing catches: no marker, no JSON line, exit status 1.
Raise ==
  /\ probe' = "start"
  /\ report' = [exit |-> Raised, via |-> "raised", left |-> 0]
  /\ probedAt' = clock
  /\ UNCHANGED <<marker, storeVars>>

\* is_secure_perms says no of a file that has gone before it looks ...
CheckPerms ==
  /\ probe = "perms"
  /\ IF Exists(ProbePath) THEN GoOn("lstat") ELSE GoOn("mode")

\* ... and raises when the file goes before its second look, at the mode.
StatPerms ==
  /\ probe = "lstat"
  /\ IF Exists(ProbePath)
     THEN GoOn(IF tokenFile[ProbePath].secure THEN "parse" ELSE "mode")
     ELSE Raise

\* file_mode lstats the file once more, for the hint, and raises likewise.
ReportMode ==
  /\ probe = "mode"
  /\ IF Exists(ProbePath) THEN Finish(Insecure, "file_state", 0) ELSE Raise

ParseJson ==
  /\ probe = "parse"
  /\ IF Exists(ProbePath) /\ tokenFile[ProbePath].json
     THEN GoOn("token_age")
     ELSE Finish(Malformed, "file_state", 0)

\* How much life the grant in the file has left (negative once it has expired).
TimeLeft(p) == tokenFile[p].created + Lifetime - clock

\* A fault: the primary path takes the mtime for the creation timestamp.
ProbeTokenAgeByMtime ==
  /\ probe = "token_age"
  /\ IF ProbeCreds /\ Exists(ProbePath) /\ tokenFile[ProbePath].json
     THEN Finish(Classify(ExpiresIn(tokenFile[ProbePath].mtime)),
                 "schwab_py", TimeLeft(ProbePath))
     ELSE GoOn("mtime")

\* token_age() is computed from the creation timestamp.  Without credentials, or
\* with a file schwab-py cannot read, the probe falls back to the mtime.
ProbeTokenAge ==
  /\ probe = "token_age"
  /\ IF ProbeCreds /\ Exists(ProbePath) /\ tokenFile[ProbePath].json
     THEN Finish(Classify(ExpiresIn(tokenFile[ProbePath].created)),
                 "schwab_py", TimeLeft(ProbePath))
     ELSE GoOn("mtime")

\* Any exception of schwab-py sends the probe to the fall-back too.
ProbeTokenAgeFails ==
  /\ probe = "token_age"
  /\ GoOn("mtime")

ProbeMtime ==
  /\ probe = "mtime"
  /\ IF Exists(ProbePath)
     THEN Finish(Classify(ExpiresIn(tokenFile[ProbePath].mtime)),
                 "mtime_fallback", TimeLeft(ProbePath))
     ELSE Finish(Expired12, "probe_failed", 0)

ProbeStep ==
  \/ CheckExists
  \/ CheckPerms
  \/ StatPerms
  \/ ReportMode
  \/ ParseJson
  \/ ProbeTokenAge
  \/ ProbeMtime
=============================================================================
