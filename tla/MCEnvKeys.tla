----------------------------- MODULE MCEnvKeys -----------------------------
(* Instances of EnvKeys for TLC: d1 and d2 act, one action at a time each; *)
(* d3 is only granted access and removed.                                  *)
EXTENDS EnvKeys, TLC

CONSTANTS d1, d2, d3, c1, c2

ClientOf == (c1 :> d1) @@ (c2 :> d2)

\* Every property excuses what follows a commit that slipped through the check.
Unraced == ~raced
=============================================================================
