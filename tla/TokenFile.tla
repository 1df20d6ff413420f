------------------------------ MODULE TokenFile ------------------------------
(***************************************************************************)
(* The auth CLI step by step: a login (login_flow or manual_flow) mints a  *)
(* grant in the browser and hands it to the write function, which writes   *)
(* token.tmp, chmods it and renames it over token.json.  All logins use    *)
(* the one temporary name, and any of them may fail or be killed between   *)
(* two steps.  A file (inode) is named after the login that created it.    *)
(***************************************************************************)
EXTENDS Integers

CONSTANTS
  Logins,    \* runs of the auth CLI with one --config-dir
  None,      \* no such file
  Empty,     \* content of a file that was opened and not yet written
  Torn,      \* content that is nobody's whole grant
  NoFile,    \* TokenStore's "no file"
  Lifetime,  \* TokenStore's, of no consequence here
  MaxClock   \* bound: the clock stops here

ASSUME FileAssumption ==
  /\ None \notin Logins
  /\ Empty \notin Logins
  /\ Torn \notin Logins
  /\ Empty # Torn
  /\ MaxClock \in Nat

VARIABLES
  clock,
  pc,        \* [Logins -> where the login is, or how it ended]
  tmp,       \* the file token.tmp names, or None
  token,     \* the file token.json names, or None
  fd,        \* [Logins -> the file the login has opened, or None]
  content,   \* [Logins -> what the file holds: a login's grant, Empty or Torn]
  secure,    \* [Logins -> is the file's mode 0600?]
  mtime,     \* [Logins -> when the file was last written]
  minted,    \* [Logins -> when Schwab issued the login's grant]
  alone,     \* history: [Logins -> no other login was writing while it was]
  chmodded,  \* history: [Logins -> its chmod worked]
  last       \* history: the last login to rename, or None

fileVars == <<tmp, token, fd, content, secure, mtime>>
historyVars == <<alone, chmodded, last>>
vars == <<clock, pc, fileVars, minted, historyVars>>

Steps == {"start", "browser", "write", "chmod", "replace"}
Ends == {"ok", "dry_run", "failed", "killed"}

TypeOK ==
  /\ clock \in Nat
  /\ pc \in [Logins -> Steps \cup Ends]
  /\ tmp \in Logins \cup {None}
  /\ token \in Logins \cup {None}
  /\ fd \in [Logins -> Logins \cup {None}]
  /\ content \in [Logins -> Logins \cup {Empty, Torn}]
  /\ secure \in [Logins -> BOOLEAN]
  /\ mtime \in [Logins -> 0..clock]
  /\ minted \in [Logins -> 0..clock]
  /\ alone \in [Logins -> BOOLEAN]
  /\ chmodded \in [Logins -> BOOLEAN]
  /\ last \in Logins \cup {None}

Init ==
  /\ clock = 0
  /\ pc = [l \in Logins |-> "start"]
  /\ tmp = None
  /\ token = None
  /\ fd = [l \in Logins |-> None]
  /\ content = [l \in Logins |-> Empty]
  /\ secure = [l \in Logins |-> FALSE]
  /\ mtime = [l \in Logins |-> 0]
  /\ minted = [l \in Logins |-> 0]
  /\ alone = [l \in Logins |-> TRUE]
  /\ chmodded = [l \in Logins |-> FALSE]
  /\ last = None

Goto(l, step) == pc' = [pc EXCEPT ![l] = step]

Writing(l) == pc[l] \in {"write", "chmod", "replace"}

\* build_auth_config; a dry run ends here, as does one without credentials.
Start(l) ==
  /\ pc[l] = "start"
  /\ \E step \in {"browser", "dry_run", "failed"} : Goto(l, step)
  /\ UNCHANGED <<clock, fileVars, minted, historyVars>>

\* The user gives up, or the flow times out; Ctrl-C answers 130.
Abandon(l) ==
  /\ pc[l] = "browser"
  /\ Goto(l, "failed")
  /\ UNCHANGED <<clock, fileVars, minted, historyVars>>

\* A fault: the grant is stamped with the end of its life.
MintedAsExpiry(l) ==
  /\ pc[l] = "browser"
  /\ Goto(l, "write")
  /\ minted' = [minted EXCEPT ![l] = clock + Lifetime]
  /\ alone' = [m \in Logins |->
       alone[m] /\ ~(\E n \in Logins : Writing(n) /\ n # l /\ m \in {l, n})]

\* Schwab mints the grant; another login that is writing now overlaps this one.
Minted(l) ==
  /\ pc[l] = "browser"
  /\ Goto(l, "write")
  /\ minted' = [minted EXCEPT ![l] = clock]
  /\ alone' = [m \in Logins |->
       alone[m] /\ ~(\E n \in Logins : Writing(n) /\ n # l /\ m \in {l, n})]

\* A fault: an existing temporary file is opened without being truncated.
OpenAppends(l) ==
  /\ Minted(l)
  /\ IF tmp = None
     THEN /\ tmp' = l
          /\ content' = [content EXCEPT ![l] = Empty]
          /\ \E mode \in BOOLEAN : secure' = [secure EXCEPT ![l] = mode]
     ELSE UNCHANGED <<tmp, content, secure>>
  /\ fd' = [fd EXCEPT ![l] = tmp']
  /\ mtime' = [mtime EXCEPT ![tmp'] = clock]
  /\ UNCHANGED <<clock, token, chmodded, last>>

\* A fault: the token is written where it belongs, without a temporary file.
OpenInPlace(l) ==
  /\ Minted(l)
  /\ token' = IF token = None THEN l ELSE token
  /\ tmp' = token'
  /\ content' = [content EXCEPT ![token'] = Empty]
  /\ fd' = [fd EXCEPT ![l] = token']
  /\ mtime' = [mtime EXCEPT ![token'] = clock]
  /\ UNCHANGED <<clock, secure, chmodded, last>>

\* write_text opens token.tmp: a file left by another login is truncated and
\* keeps its mode, a new one gets what the umask gives.
Open(l) ==
  /\ Minted(l)
  /\ tmp' = IF tmp = None THEN l ELSE tmp
  /\ \E mode \in BOOLEAN :
       secure' = IF tmp = None THEN [secure EXCEPT ![l] = mode] ELSE secure
  /\ content' = [content EXCEPT ![tmp'] = Empty]
  /\ mtime' = [mtime EXCEPT ![tmp'] = clock]
  /\ fd' = [fd EXCEPT ![l] = tmp']
  /\ UNCHANGED <<clock, token, chmodded, last>>

\* It writes from the start of the file; what another login has written there
\* since the file was opened may show beyond the end.
Write(l) ==
  /\ pc[l] = "write"
  /\ \E c \in IF content[fd[l]] = Empty THEN {l} ELSE {l, Torn} :
       content' = [content EXCEPT ![fd[l]] = c]
  /\ mtime' = [mtime EXCEPT ![fd[l]] = clock]
  /\ Goto(l, "chmod")
  /\ UNCHANGED <<clock, tmp, token, fd, secure, minted, historyVars>>

\* A fault: the try around the chmod takes in the write.
WriteFailsSwallowed(l) ==
  /\ pc[l] = "write"
  /\ content' = [content EXCEPT ![fd[l]] = Torn]
  /\ mtime' = [mtime EXCEPT ![fd[l]] = clock]
  /\ Goto(l, "replace")
  /\ UNCHANGED <<clock, tmp, token, fd, secure, minted, historyVars>>

\* The disk is full: the login ends in an exception, the temporary file stays.
WriteFails(l) ==
  /\ pc[l] = "write"
  /\ content' = [content EXCEPT ![fd[l]] = Torn]
  /\ mtime' = [mtime EXCEPT ![fd[l]] = clock]
  /\ Goto(l, "failed")
  /\ UNCHANGED <<clock, tmp, token, fd, secure, minted, historyVars>>

\* chmod acts on the name, not on the open file; an OSError is swallowed.
Chmod(l) ==
  /\ pc[l] = "chmod"
  /\ \E works \in BOOLEAN :
       /\ works => tmp # None
       /\ secure' = IF works THEN [secure EXCEPT ![tmp] = TRUE] ELSE secure
       /\ chmodded' = [chmodded EXCEPT ![l] = works]
  /\ Goto(l, "replace")
  /\ UNCHANGED <<clock, tmp, token, fd, content, mtime, minted, alone, last>>

\* So does os.replace: it installs whatever token.tmp names now.
Replace(l) ==
  /\ pc[l] = "replace"
  /\ tmp # None
  /\ token' = tmp
  /\ tmp' = None
  /\ last' = l
  /\ Goto(l, "ok")
  /\ UNCHANGED <<clock, fd, content, secure, mtime, minted, alone, chmodded>>

\* The name has gone, with another login's rename: FileNotFoundError.
ReplaceFails(l) ==
  /\ pc[l] = "replace"
  /\ tmp = None
  /\ Goto(l, "failed")
  /\ UNCHANGED <<clock, fileVars, minted, historyVars>>

\* The process is killed between two steps, or in the middle of the write.
Kill(l) ==
  /\ Writing(l)
  /\ Goto(l, "killed")
  /\ \E torn \in BOOLEAN :
       /\ torn => pc[l] = "write"
       /\ content' = IF torn THEN [content EXCEPT ![fd[l]] = Torn] ELSE content
       /\ mtime' = IF torn THEN [mtime EXCEPT ![fd[l]] = clock] ELSE mtime
  /\ UNCHANGED <<clock, tmp, token, fd, secure, minted, historyVars>>

\* Writing takes no time that counts.
Tick ==
  /\ clock < MaxClock
  /\ \A l \in Logins : ~Writing(l)
  /\ clock' = clock + 1
  /\ UNCHANGED <<pc, fileVars, minted, historyVars>>

LoginStep(l) ==
  \/ Start(l)
  \/ Abandon(l)
  \/ Open(l)
  \/ Write(l)
  \/ WriteFails(l)
  \/ Chmod(l)
  \/ Replace(l)
  \/ ReplaceFails(l)
  \/ Kill(l)

Next == Tick \/ \E l \in Logins : LoginStep(l)

Spec == Init /\ [][Next]_vars

-----------------------------------------------------------------------------

Overlapped == \E l \in Logins : ~alone[l]

\* A reader of token.json never finds less than the whole grant of some login,
\* although logins fail and die at any step and leave their temporary files,
\* unless two of them were writing at the same time.
TornNeedsOverlap ==
  (token # None /\ content[token] \notin Logins) => Overlapped

\* When the last login to answer OK had no other beside it, the file holds its
\* grant, with mode 0600 if its chmod worked -- whatever earlier logins left
\* behind, and whatever later ones have begun without coming to an end.
SoleLoginInstalls ==
  (last # None /\ alone[last]) =>
    /\ token # None
    /\ content[token] = last
    /\ chmodded[last] => secure[token]

\* As long as no two logins were writing at once, they do to token.json what
\* TokenStore says of them: nothing, or all of LoginFlow in one step.
AsFile ==
  IF token = None THEN NoFile
  ELSE [created |-> IF content[token] \in Logins THEN minted[content[token]] ELSE 0,
        mtime |-> mtime[token],
        secure |-> secure[token],
        json |-> content[token] \in Logins]

Files == [p \in {"token.json"} |-> AsFile]
Installed == {minted[l] : l \in {m \in Logins : pc[m] = "ok"}}

Store == INSTANCE TokenStore WITH
  Paths <- {"token.json"},
  AuthPath <- "token.json",
  tokenFile <- Files,
  granted <- Installed,
  LastLogin <- MaxClock

ImplementsLoginFlow ==
  [][Overlapped' \/ Store!LoginFlow \/ UNCHANGED <<Files, Installed>>]_vars
=============================================================================
