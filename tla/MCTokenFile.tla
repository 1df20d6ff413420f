----------------------------- MODULE MCTokenFile -----------------------------
(* TokenFile for TLC.  Logins are interchangeable.                         *)
EXTENDS TokenFile, TLC

Symmetry == Permutations(Logins)
=============================================================================
