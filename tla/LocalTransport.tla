--------------------------- MODULE LocalTransport ---------------------------
(***************************************************************************)
(* LocalSubprocessTransport of app/services/ps_transport.py: every script  *)
(* is a powershell.exe of its own, which is killed, and waited for, when   *)
(* it takes too long.  _run_powershell_check of dhcp_service.py does the   *)
(* same for the checks of the environment.                                 *)
(***************************************************************************)
EXTENDS Naturals

CONSTANT Calls      \* callers of execute(), each making one call at a time

VARIABLES
    pc,         \* how far each call has come
    process,    \* the process of each call
    ran         \* how often the script of a call under way has run

vars == <<pc, process, ran>>

Pending == {"spawning", "communicating", "timed_out", "waiting"}

Answered == {"result", "error", "timeout"}

TypeOK ==
    /\ pc \in [Calls -> {"idle"} \cup Pending \cup Answered]
    /\ process \in [Calls -> {"none", "alive", "exited"}]
    /\ ran \in [Calls -> 0 .. 1]

Init ==
    /\ pc = [c \in Calls |-> "idle"]
    /\ process = [c \in Calls |-> "none"]
    /\ ran = [c \in Calls |-> 0]

-----------------------------------------------------------------------------
(* The transport *)

Begin(c) ==
    /\ pc[c] \notin Pending
    /\ pc' = [pc EXCEPT ![c] = "spawning"]
    /\ process' = [process EXCEPT ![c] = "none"]
    /\ UNCHANGED ran

spawn(c) ==
    /\ pc[c] = "spawning"
    /\ pc' = [pc EXCEPT ![c] = "communicating"]
    /\ process' = [process EXCEPT ![c] = "alive"]
    /\ UNCHANGED ran

Answer(c, outcome) ==
    /\ pc' = [pc EXCEPT ![c] = outcome]
    /\ ran' = [ran EXCEPT ![c] = 0]

spawn_fails(c) ==
    /\ pc[c] = "spawning"
    /\ Answer(c, "error")
    /\ UNCHANGED process

\* communicate() returns when the process has exited: with returncode 0, once
\* the script has run, or with another.
communicate_returns(c) ==
    /\ pc[c] = "communicating"
    /\ process[c] = "exited"
    /\ \E outcome \in {"result", "error"} :
         /\ outcome = "result" => ran[c] = 1
         /\ Answer(c, outcome)
    /\ UNCHANGED process

communicate_times_out(c) ==
    /\ pc[c] = "communicating"
    /\ pc' = [pc EXCEPT ![c] = "timed_out"]
    /\ UNCHANGED <<process, ran>>

\* The process may have exited meanwhile.
kill(c) ==
    /\ pc[c] = "timed_out"
    /\ process[c] = "alive"
    /\ process' = [process EXCEPT ![c] = "exited"]
    /\ pc' = [pc EXCEPT ![c] = "waiting"]
    /\ UNCHANGED ran

reraise(c) ==
    /\ \/ pc[c] = "waiting"
       \/ pc[c] = "timed_out" /\ process[c] = "exited"
    /\ Answer(c, "timeout")
    /\ UNCHANGED process

-----------------------------------------------------------------------------
(* The process *)

script_runs(c) ==
    /\ process[c] = "alive"
    /\ ran[c] = 0
    /\ ran' = [ran EXCEPT ![c] = 1]
    /\ UNCHANGED <<pc, process>>

exits(c) ==
    /\ process[c] = "alive"
    /\ process' = [process EXCEPT ![c] = "exited"]
    /\ UNCHANGED <<pc, ran>>

-----------------------------------------------------------------------------
(* The specification *)

Execute(c) ==
    \/ spawn(c) \/ spawn_fails(c)
    \/ communicate_returns(c) \/ communicate_times_out(c)
    \/ kill(c) \/ reraise(c)

Next ==
    \E c \in Calls : Begin(c) \/ Execute(c) \/ script_runs(c) \/ exits(c)

Spec == Init /\ [][Next]_vars

-----------------------------------------------------------------------------
(* Properties *)

\* No process, and so no script, outlives the call it was started for.
NothingRunsLate == \A c \in Calls : process[c] = "alive" => pc[c] \in Pending

\* The transport is a Transport, one whose scripts run once and never late.
T == INSTANCE Transport WITH
        state <- [c \in Calls |-> IF pc[c] \in Pending THEN "pending" ELSE pc[c]],
        ran <- ran,
        late <- [c \in Calls |-> 0]

ImplementsTransport == T!Spec
=============================================================================
