----------------------------- MODULE MCPsrpPool -----------------------------
(***************************************************************************)
(* Three callers and two slots: one more than fits.  Two slots make room   *)
(* for a call that parks its session while another runs or retries; three  *)
(* sessions, for both slots to be in use while the server still holds the  *)
(* shell of one that is being closed or has been forgotten.                *)
(***************************************************************************)
EXTENDS PsrpPoolProperties

CONSTANTS c1, c2, c3, s1, s2, s3, none

ThreeCalls == {c1, c2, c3}
ThreeSessions == {s1, s2, s3}
=============================================================================
