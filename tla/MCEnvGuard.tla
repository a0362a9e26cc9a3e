----------------------------- MODULE MCEnvGuard -----------------------------
(***************************************************************************)
(* Three callers: one probes while one waits and one arrives.  Two ticks   *)
(* of TTL: a failure that is fresh, one that is old and one that expired.  *)
(***************************************************************************)
EXTENDS EnvGuard

CONSTANTS c1, c2, c3

ThreeCallers == {c1, c2, c3}
=============================================================================
