----------------------------- MODULE HealthCheck -----------------------------
(***************************************************************************)
(* The health_check tool of a server (tools/meta.py): another reader of    *)
(* the token file, with a path resolution of its own, which asks nobody    *)
(* and judges the age of the token by the file's mtime alone.              *)
(***************************************************************************)
EXTENDS ClientSession

CONSTANTS
  Checkers,   \* bound: the servers whose health_check is called
  CheckPath,  \* SCHWAB_POSITIONS_TOKEN_PATH as it stands, ~ and all, or the default path
  Grain,      \* a thousandth of a day, what ages are rounded to
  NoEstimate  \* token_expires_in_days is null

ASSUME CheckAssumption ==
  /\ Checkers \subseteq Servers
  /\ CheckPath \in Paths
  /\ Grain \in Nat \ {0}
  /\ Lifetime % Grain = 0
  /\ NoEstimate \notin Int

VARIABLE
  health  \* [Servers -> the last answer of health_check, and (history) the life
          \* that the grant in the file really had left]

CheckStatuses == {"none", "ready", "needs_oauth_login", "needs_env_setup"}

CheckTypeOK ==
  health \in [Servers -> [status: CheckStatuses, expiresIn: Int \cup {NoEstimate}, left: Int]]

CheckInit ==
  health = [s \in Servers |-> [status |-> "none", expiresIn |-> NoEstimate, left |-> 0]]

Status(s, tokenPresent) ==
  IF s \notin CredServers THEN "needs_env_setup"
  ELSE IF tokenPresent THEN "ready"
  ELSE "needs_oauth_login"

AnswerCheck(s, tokenPresent, expiresIn, left) ==
  health' = [health EXCEPT ![s] =
    [status |-> Status(s, tokenPresent), expiresIn |-> expiresIn, left |-> left]]

\* exists(): without a file that is all there is to say.
LookForToken(s) ==
  /\ s \in Checkers
  /\ call[s] = "idle"
  /\ IF Exists(CheckPath)
     THEN Goto(s, "stat") /\ UNCHANGED health
     ELSE AnswerCheck(s, FALSE, NoEstimate, 0) /\ UNCHANGED call
  /\ UNCHANGED <<client, outcome, onDisk, storeVars>>

AgeOf(p) == IF clock >= tokenFile[p].mtime THEN clock - tokenFile[p].mtime ELSE 0

\* A fault: part of a thousandth of a day counts as a whole one.
RoundedUp(age) == {m \in age .. age + Grain : m % Grain = 0 /\ m < age + Grain}

\* round(..., 3) of an age in days: the nearest multiple of Grain, and half-way
\* between two of them either, as the floating-point quotient falls.
Rounded(age) ==
  {m \in 0 .. age + Grain : m % Grain = 0 /\ 2 * m <= 2 * age + Grain /\ 2 * age <= 2 * m + Grain}

\* stat(): the file may be another by now, or none; it still counts as present.
\* The difference from Lifetime is rounded again, which changes no multiple of Grain.
StatToken(s) ==
  /\ call[s] = "stat"
  /\ Goto(s, "idle")
  /\ IF Exists(CheckPath)
     THEN \E age \in Rounded(AgeOf(CheckPath)) :
            AnswerCheck(s, TRUE, Lifetime - age, tokenFile[CheckPath].created + Lifetime - clock)
     ELSE AnswerCheck(s, TRUE, NoEstimate, 0)
  /\ UNCHANGED <<client, outcome, onDisk, storeVars>>

CheckStep(s) == LookForToken(s) \/ StatToken(s)
=============================================================================
