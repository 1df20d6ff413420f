----------------------------- MODULE TokenStore -----------------------------
(***************************************************************************)
(* token.json, the one piece of state that the auth CLI, the cron health   *)
(* probe and every running server share.  A file is abstracted to what     *)
(* those programs tell apart: the creation timestamp of the refresh-token  *)
(* grant it stores, its mtime, whether its mode is 0600 and whether it is  *)
(* JSON.  Time is counted in units: 12 hours tell the code's thresholds    *)
(* apart, and any finer unit can be taken.  Any number of steps may fall   *)
(* within one unit, and time may pass between any two but a granted        *)
(* refresh and its write.                                                  *)
(***************************************************************************)
EXTENDS Integers

CONSTANTS
  Paths,      \* the places a token file can be at
  AuthPath,   \* where the auth CLI writes (default directory or --config-dir)
  NoFile,     \* "there is no file at this path"
  Lifetime,   \* life of a refresh-token grant (7 days, hard limit)
  LastLogin,  \* bound: the user logs in no later than this
  MaxClock    \* bound: the clock stops here

File == [created: Nat, mtime: Nat, secure: BOOLEAN, json: BOOLEAN]

ASSUME StoreAssumption ==
  /\ AuthPath \in Paths
  /\ NoFile \notin File
  /\ Lifetime \in Nat \ {0}
  /\ LastLogin \in Nat
  /\ MaxClock \in Nat

VARIABLES
  clock,      \* now, in units
  tokenFile,  \* [Paths -> File \cup {NoFile}]
  granted     \* history: the creation times of the grants Schwab has issued

storeVars == <<clock, tokenFile, granted>>

StoreTypeOK ==
  /\ clock \in Nat
  /\ tokenFile \in [Paths -> File \cup {NoFile}]
  /\ granted \subseteq Nat

StoreInit ==
  /\ clock = 0
  /\ tokenFile = [p \in Paths |-> NoFile]
  /\ granted = {}

Exists(p) == tokenFile[p] # NoFile

\* Schwab honours a grant for Lifetime after it was created, whatever use is
\* made of it in between.
Live(created) == clock < created + Lifetime

FileLive(p) == Exists(p) /\ tokenFile[p].json /\ Live(tokenFile[p].created)

\* A fault: the grant is stamped before the browser flow has minted it.
LoginFlowStampedEarly ==
  /\ clock <= LastLogin
  /\ \E secure \in BOOLEAN :
       tokenFile' = [tokenFile EXCEPT ![AuthPath] =
         [created |-> clock - 1, mtime |-> clock, secure |-> secure, json |-> TRUE]]
  /\ granted' = granted \cup {clock - 1}
  /\ UNCHANGED clock

\* login_flow / manual_flow: the browser flow mints a grant, and the write
\* function installs it with one os.replace.  The chmod of the temporary file
\* is best-effort (OSError swallowed), so the mode may be anything.
LoginFlow ==
  /\ clock <= LastLogin
  /\ \E secure \in BOOLEAN :
       tokenFile' = [tokenFile EXCEPT ![AuthPath] =
         [created |-> clock, mtime |-> clock, secure |-> secure, json |-> TRUE]]
  /\ granted' = granted \cup {clock}
  /\ UNCHANGED clock

\* The incident procedure of docs/SECURITY.md has the user delete the file.
RemoveToken(p) ==
  /\ Exists(p)
  /\ tokenFile' = [tokenFile EXCEPT ![p] = NoFile]
  /\ UNCHANGED <<clock, granted>>

\* The hint of the insecure-permissions alarm has the user run chmod 600.
ChmodToken(p) ==
  /\ Exists(p)
  /\ ~tokenFile[p].secure
  /\ tokenFile' = [tokenFile EXCEPT ![p].secure = TRUE]
  /\ UNCHANGED <<clock, granted>>

\* A fault: a refresh resets the creation timestamp, as a new login would.
WriteInPlaceRestamps(p, created, whole) ==
  /\ \E secure \in BOOLEAN :
       /\ Exists(p) => secure = tokenFile[p].secure
       /\ tokenFile' = [tokenFile EXCEPT ![p] =
            [created |-> clock, mtime |-> clock, secure |-> secure, json |-> whole]]
  /\ UNCHANGED <<clock, granted>>

\* schwab-py's refresh rewrites the file in place: the grant stays the
\* refresher's, the mtime becomes now, the mode of an existing file is kept
\* (a new file gets what the umask gives).  `whole` is FALSE for a write that
\* was cut short.
WriteInPlace(p, created, whole) ==
  /\ \E secure \in BOOLEAN :
       /\ Exists(p) => secure = tokenFile[p].secure
       /\ tokenFile' = [tokenFile EXCEPT ![p] =
            [created |-> created, mtime |-> clock, secure |-> secure, json |-> whole]]
  /\ UNCHANGED <<clock, granted>>
=============================================================================
