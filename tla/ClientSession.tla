--------------------------- MODULE ClientSession ---------------------------
(***************************************************************************)
(* The server processes (one per MCP host).  Each keeps one lazily built   *)
(* Schwab client for its whole life (tools/_common.get_client) and answers *)
(* one tool call at a time, because FastMCP runs the synchronous tool      *)
(* functions on its event loop.  The Schwab side (token endpoint, in-place *)
(* rewrite of the token file on a refresh) is schwab-py's and external.    *)
(***************************************************************************)
EXTENDS TokenStore

CONSTANTS
  Servers,      \* the running server processes
  CredServers,  \* those with an API key and secret in their environment
  ServerPath,   \* SCHWAB_POSITIONS_TOKEN_PATH, or the default path
  NoClient      \* the singleton has not been built

ASSUME SessionAssumption ==
  /\ CredServers \subseteq Servers
  /\ ServerPath \in Paths
  /\ NoClient \notin Nat

VARIABLES
  client,   \* [Servers -> creation time of the grant the singleton holds, or NoClient]
  call,     \* [Servers -> where the tool call is]
  outcome,  \* [Servers -> how the last tool call ended; "none" while one is going on]
  onDisk    \* history: the grant the auth CLI had on disk when the last call began, if it
            \* was alive then and at the call's end; otherwise NoClient

sessionVars == <<client, call, outcome, onDisk>>

CallSteps == {"idle", "load", "request", "write", "stat"}
ApiOutcomes == {"ok", "api_error"}
Outcomes == ApiOutcomes \cup {"none", "unavailable", "load_error", "refresh_token_expired"}

SessionTypeOK ==
  /\ client \in [Servers -> Nat \cup {NoClient}]
  /\ call \in [Servers -> CallSteps]
  /\ outcome \in [Servers -> Outcomes]
  /\ onDisk \in [Servers -> Nat \cup {NoClient}]

SessionInit ==
  /\ client = [s \in Servers |-> NoClient]
  /\ call = [s \in Servers |-> "idle"]
  /\ outcome = [s \in Servers |-> "none"]
  /\ onDisk = [s \in Servers |-> NoClient]

Goto(s, step) == call' = [call EXCEPT ![s] = step]

Answer(s, result) ==
  /\ Goto(s, "idle")
  /\ outcome' = [outcome EXCEPT ![s] = result]
  /\ onDisk' = [onDisk EXCEPT ![s] = IF @ # NoClient /\ Live(@) THEN @ ELSE NoClient]

GrantOnDisk == IF FileLive(AuthPath) THEN tokenFile[AuthPath].created ELSE NoClient

Begin(s, step, result) ==
  /\ call[s] = "idle"
  /\ Goto(s, step)
  /\ outcome' = [outcome EXCEPT ![s] = result]
  /\ onDisk' = [onDisk EXCEPT ![s] = GrantOnDisk]
  /\ UNCHANGED <<client, storeVars>>

\* get_client with a client already built: the call goes straight to Schwab.
UseSingleton(s) ==
  /\ client[s] # NoClient
  /\ Begin(s, "request", "none")

\* get_client -> _build_client, up to the check that the file exists.
BuildClient(s) ==
  /\ client[s] = NoClient
  /\ IF s \in CredServers /\ Exists(ServerPath)
     THEN Begin(s, "load", "none")
     ELSE Begin(s, "idle", "unavailable")

\* client_from_token_file reads the file, which may have gone or been torn
\* since the check.  The server, unlike the probe, takes a file of any mode.
LoadToken(s) ==
  /\ call[s] = "load"
  /\ IF Exists(ServerPath) /\ tokenFile[ServerPath].json
     THEN /\ client' = [client EXCEPT ![s] = tokenFile[ServerPath].created]
          /\ Goto(s, "request")
          /\ UNCHANGED <<outcome, onDisk>>
     ELSE /\ Answer(s, "load_error")
          /\ UNCHANGED client
  /\ UNCHANGED storeVars

\* The access token is still good, or Schwab says no for another reason
\* (403, 429, 5xx ...): normalise_response.
Respond(s) ==
  /\ call[s] = "request"
  /\ Live(client[s])
  /\ \E result \in ApiOutcomes : Answer(s, result)
  /\ UNCHANGED <<client, storeVars>>

\* A fault: an expired grant is retried for ever instead of being answered.
RespondExpiredRetries(s) ==
  /\ call[s] = "request"
  /\ ~Live(client[s])
  /\ UNCHANGED <<sessionVars, storeVars>>

\* A 401: the grant the client holds has expired.  The client is kept.
RespondExpired(s) ==
  /\ call[s] = "request"
  /\ ~Live(client[s])
  /\ Answer(s, "refresh_token_expired")
  /\ UNCHANGED <<client, storeVars>>

\* A fault: the file is rewritten whether or not Schwab granted the refresh.
RefreshGrantedDead(s) ==
  /\ call[s] = "request"
  /\ Goto(s, "write")
  /\ UNCHANGED <<client, outcome, onDisk, storeVars>>

\* The access token has run out: Schwab issues another for a live grant ...
RefreshGranted(s) ==
  /\ call[s] = "request"
  /\ Live(client[s])
  /\ Goto(s, "write")
  /\ UNCHANGED <<client, outcome, onDisk, storeVars>>

\* ... and schwab-py writes the client's own grant back over the file.
WriteRefreshed(s) ==
  /\ call[s] = "write"
  /\ WriteInPlace(ServerPath, client[s], TRUE)
  /\ \E result \in ApiOutcomes : Answer(s, result)
  /\ UNCHANGED client

\* The MCP host stops or restarts the server, at any moment.
Exit(s) ==
  /\ client' = [client EXCEPT ![s] = NoClient]
  /\ Goto(s, "idle")
  /\ outcome' = [outcome EXCEPT ![s] = "none"]
  /\ onDisk' = [onDisk EXCEPT ![s] = NoClient]

Restart(s) ==
  /\ client[s] # NoClient \/ call[s] # "idle"
  /\ Exit(s)
  /\ UNCHANGED storeVars

\* It stops in the middle of the in-place write.
RestartTearsFile(s) ==
  /\ call[s] = "write"
  /\ WriteInPlace(ServerPath, client[s], FALSE)
  /\ Exit(s)

CallStep(s) ==
  \/ LoadToken(s)
  \/ Respond(s)
  \/ RespondExpired(s)
  \/ WriteRefreshed(s)

SessionStep(s) ==
  \/ UseSingleton(s)
  \/ BuildClient(s)
  \/ CallStep(s)
  \/ RefreshGranted(s)
  \/ Restart(s)
  \/ RestartTearsFile(s)
=============================================================================
