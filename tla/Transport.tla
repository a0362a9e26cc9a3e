------------------------------ MODULE Transport ------------------------------
(***************************************************************************)
(* What run_ps may assume of the PSRP transport: a script is answered once *)
(* with its result, an error or a timeout; it has run by the time there is *)
(* a result; it may have run without one; it runs at most twice in all.    *)
(* A run may be given up on and happen all the same: beside the retry, or  *)
(* when the call has long been answered.                                   *)
(*                                                                         *)
(* The faults of ScopeService are these: an error or a timeout with the    *)
(* script run or not, a late run, and a result of the second run.          *)
(***************************************************************************)
EXTENDS Naturals

CONSTANT Calls    \* callers of execute(), each making one call at a time

VARIABLES
    state,    \* "idle", "pending", "result", "error" or "timeout"
    ran,      \* how often the script of a call under way has run
    late      \* how many runs of it that were given up may still happen

vars == <<state, ran, late>>

Init ==
    /\ state = [c \in Calls |-> "idle"]
    /\ ran = [c \in Calls |-> 0]
    /\ late = [c \in Calls |-> 0]

Begin(c) ==
    /\ state[c] # "pending"
    /\ late[c] = 0
    /\ state' = [state EXCEPT ![c] = "pending"]
    /\ UNCHANGED <<ran, late>>

\* Another run makes no more than two.
MayRun(c) == ran[c] + late[c] < 2

Run(c) ==
    /\ state[c] = "pending"
    /\ MayRun(c)
    /\ ran' = [ran EXCEPT ![c] = @ + 1]
    /\ UNCHANGED <<state, late>>

\* A run is given up, and the call goes on to its retry.
Abandon(c) ==
    /\ state[c] = "pending"
    /\ MayRun(c)
    /\ late' = [late EXCEPT ![c] = @ + 1]
    /\ UNCHANGED <<state, ran>>

Answer(c, outcome) ==
    /\ state[c] = "pending"
    /\ outcome = "result" => ran[c] > 0
    /\ state' = [state EXCEPT ![c] = outcome]
    /\ ran' = [ran EXCEPT ![c] = 0]
    /\ \/ UNCHANGED late
       \/ /\ outcome # "result"
          /\ MayRun(c)
          /\ late' = [late EXCEPT ![c] = @ + 1]

\* A run that was given up happens, or is stopped.
EndLate(c) ==
    /\ late[c] > 0
    /\ late' = [late EXCEPT ![c] = @ - 1]
    /\ \/ UNCHANGED ran
       \/ state[c] = "pending" /\ ran' = [ran EXCEPT ![c] = @ + 1]
    /\ UNCHANGED state

Next ==
    \E c \in Calls :
        \/ Begin(c)
        \/ Run(c)
        \/ Abandon(c)
        \/ \E outcome \in {"result", "error", "timeout"} : Answer(c, outcome)
        \/ EndLate(c)

Spec == Init /\ [][Next]_vars
=============================================================================
