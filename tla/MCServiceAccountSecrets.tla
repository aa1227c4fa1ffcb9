---------------------- MODULE MCServiceAccountSecrets ----------------------
(***************************************************************************)
(* Instances of ServiceAccountSecrets small enough for TLC.                *)
(***************************************************************************)
EXTENDS ServiceAccountSecrets, TLC

CONSTANTS p1, a1, s1, s2

\* No step treats one process, account or name differently from another.
Symmetry == Permutations(Procs) \cup Permutations(Accounts) \cup Permutations(Names)
=============================================================================
