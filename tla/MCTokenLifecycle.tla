-------------------------- MODULE MCTokenLifecycle --------------------------
(***************************************************************************)
(* TokenLifecycle for TLC.  The configurations give every constant a value *)
(* directly; time is bounded by MaxClock and logins by LastLogin.          *)
(***************************************************************************)
EXTENDS TokenLifecycle

\* The users and the servers alone, for the questions that do not involve the
\* probe: an instance with two servers then stays small.
SessionSpec == Init /\ [][Next /\ UNCHANGED probeVars]_vars
=============================================================================
