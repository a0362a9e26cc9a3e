------------------------------ MODULE PsrpPool ------------------------------
(***************************************************************************)
(* The PSRP transport of app/services/psrp_pool.py behind the semaphore of *)
(* run_ps (app/services/ps_executor.py): a LIFO pool of sessions on the    *)
(* DHCP server, one script at a time on each.                              *)
(*                                                                         *)
(* A session has two ends.  This process parks it, uses it or closes it;   *)
(* the server keeps a shell for it.  The server may drop that shell at any *)
(* time, which shows only when the session is used next: a run can always  *)
(* fail.  A close may fail too, and so may an open that has already made   *)
(* the shell: either way this process forgets the session, and its shell   *)
(* stays until the server's own idle timeout.                              *)
(* A worker thread runs the script, so a caller that gives up leaves a     *)
(* script behind that may still run while the shell is there.              *)
(***************************************************************************)
EXTENDS Integers, Sequences, FiniteSets

CONSTANTS
    Calls,            \* callers of run_ps, each making one call at a time
    Sessions,         \* identities of PSRP sessions, reused once closed
    MaxConcurrency,   \* POWERSHELL_MAX_CONCURRENCY
    MaxIdle,          \* WINRM_RUNSPACE_MAX_IDLE_SECONDS
    None              \* no session, and no call

ASSUME PoolAssumption ==
    /\ MaxConcurrency \in Nat \ {0}
    /\ MaxIdle \in Nat \ {0}
    /\ None \notin Sessions \cup Calls

VARIABLES
    gate,       \* calls waiting for the semaphore, in order
    pc,         \* how far each call has come
    local,      \* what execute() knows of the run under way, per call
    idle,       \* parked sessions, the most recently parked last
    shells,     \* sessions the server may hold a shell for
    closing,    \* sessions a background thread is about to close
    strays,     \* those of them that this process has forgotten
    ran,        \* (history) how often the script of a call under way has run
    late        \* the call whose script may still run on a session given up

vars == <<gate, pc, local, idle, shells, closing, strays, ran, late>>

-----------------------------------------------------------------------------
(* Types *)

Parked == [session : Sessions, age : 0 .. MaxIdle]

\* executed: the script has taken effect, its output has yet to arrive.
Local == [session : Sessions \cup {None}, executed : BOOLEAN]

NoLocal == [session |-> None, executed |-> FALSE]

\* The stages in which a call has a session.
Holding == {"pooled", "dead", "fresh", "broken"}

\* The stages between the semaphore and the answer.
Active == Holding \cup {"opening"}

Answered == {"result", "error", "timeout"}

TypeOK ==
    /\ gate \in Seq(Calls)
    /\ pc \in [Calls -> {"idle", "waiting"} \cup Active \cup Answered]
    /\ local \in [Calls -> Local]
    /\ idle \in Seq(Parked)
    /\ shells \in SUBSET Sessions
    /\ closing \in SUBSET Sessions
    /\ strays \in SUBSET Sessions
    /\ ran \in [Calls -> 0 .. 2]
    /\ late \in [Sessions -> Calls \cup {None}]

Init ==
    /\ gate = << >>
    /\ pc = [c \in Calls |-> "idle"]
    /\ local = [c \in Calls |-> NoLocal]
    /\ idle = << >>
    /\ shells = {}
    /\ closing = {}
    /\ strays = {}
    /\ ran = [c \in Calls |-> 0]
    /\ late = [s \in Sessions |-> None]

-----------------------------------------------------------------------------
(* The pool *)

\* The sessions of a sequence of parked ones.
SessionsOf(parked) == {parked[i].session : i \in DOMAIN parked}

\* The session of a call's run.
on(c) == local[c].session

\* The sessions the calls hold.
Held == {on(c) : c \in Calls} \ {None}

\* (The variants named Wrong_... are wrong on purpose: what a plausible slip
\* would make of the definition they stand before.)
Wrong_checkin_at_bottom(parked, session) ==
    <<[session |-> session, age |-> 0]>> \o parked

_checkin(parked, session) == Append(parked, [session |-> session, age |-> 0])

\* _checkout drops parked sessions from the top until one is young enough: that
\* one's place, or 0 when none is.
_checkout(parked, place) ==
    /\ place > 0 => parked[place].age < MaxIdle
    /\ \A i \in place + 1 .. Len(parked) : parked[i].age >= MaxIdle

-----------------------------------------------------------------------------
(* A session *)

\* _Runspace.close: the server drops the shell and stops what runs there.  Or
\* the close fails, which is logged and forgotten; `script` is the call whose
\* script may run there yet.
Close(s, script) ==
    \/ /\ shells' = shells \ {s}
       /\ late' = [late EXCEPT ![s] = None]
       /\ UNCHANGED strays
    \/ /\ strays' = strays \cup {s}
       /\ late' = [late EXCEPT ![s] = script]
       /\ UNCHANGED shells

\* The call whose script may run yet on the session of c, once c gives it up.
Left(c) == IF local[c].executed THEN None ELSE c

-----------------------------------------------------------------------------
(* A call *)

Begin(c) ==
    /\ pc[c] \in {"idle"} \cup Answered
    /\ \A s \in Sessions : late[s] # c
    /\ pc' = [pc EXCEPT ![c] = "waiting"]
    /\ gate' = Append(gate, c)
    /\ UNCHANGED <<local, idle, shells, closing, strays, ran, late>>

\* The call leaves execute().
Leave(c, outcome) ==
    /\ pc' = [pc EXCEPT ![c] = outcome]
    /\ local' = [local EXCEPT ![c] = NoLocal]
    /\ ran' = [ran EXCEPT ![c] = 0]

Wrong_slot_off_by_one ==
    Cardinality({c \in Calls : pc[c] \in Active}) <= MaxConcurrency

Wrong_slot_kept_on_timeout ==
    Cardinality({c \in Calls : pc[c] \in Active \cup {"timeout"}})
        < MaxConcurrency

\* The semaphore has a slot left.
slot_free == Cardinality({c \in Calls : pc[c] \in Active}) < MaxConcurrency

\* The semaphore admits the longest waiter; from there to the worker thread
\* nothing gives way.
execute(c) ==
    \E place \in 0 .. Len(idle) :
        /\ gate # << >>
        /\ Head(gate) = c
        /\ slot_free
        /\ _checkout(idle, place)
        /\ gate' = Tail(gate)
        /\ closing' =
             closing \cup SessionsOf(SubSeq(idle, place + 1, Len(idle)))
        /\ idle' = SubSeq(idle, 1, place - 1)
        /\ IF place = 0
           THEN /\ pc' = [pc EXCEPT ![c] = "opening"]
                /\ UNCHANGED local
           ELSE /\ pc' = [pc EXCEPT ![c] = "pooled"]
                /\ local' = [local EXCEPT ![c].session = idle[place].session]
        /\ UNCHANGED <<shells, strays, ran, late>>

\* _Runspace.open
open(c) ==
    /\ pc[c] = "opening"
    /\ \E s \in Sessions \ shells :
         /\ shells' = shells \cup {s}
         /\ local' = [local EXCEPT ![c].session = s]
    /\ pc' = [pc EXCEPT ![c] = "fresh"]
    /\ UNCHANGED <<gate, idle, closing, strays, ran, late>>

\* It fails: before the server has made a shell, or after, and then nobody is
\* left to close it.
open_fails(c) ==
    /\ pc[c] = "opening"
    /\ Leave(c, "error")
    /\ \/ UNCHANGED <<shells, strays>>
       \/ \E s \in Sessions \ shells :
            /\ shells' = shells \cup {s}
            /\ strays' = strays \cup {s}
    /\ UNCHANGED <<gate, idle, closing, late>>

\* The script takes effect on the server, which may be as late as when this
\* process, having lost the connection, closes the session.
run(c) ==
    /\ pc[c] \in Holding
    /\ ~local[c].executed
    /\ local' = [local EXCEPT ![c].executed = TRUE]
    /\ ran' = [ran EXCEPT ![c] = @ + 1]
    /\ UNCHANGED <<gate, pc, idle, shells, closing, strays, late>>

\* Its output arrives: the session goes back to the pool.
run_returns(c) ==
    /\ pc[c] \in {"pooled", "fresh"}
    /\ local[c].executed
    /\ idle' = _checkin(idle, on(c))
    /\ Leave(c, "result")
    /\ UNCHANGED <<gate, shells, closing, strays, late>>

\* The transport fails: the server has dropped the shell (keep-alive, idle
\* timeout, CredSSP lifetime), or the connection to a live one is lost.
\* _run_on awaits the close before anything else is done about it.
run_raises(c) ==
    /\ pc[c] \in {"pooled", "fresh"}
    /\ pc' = [pc EXCEPT ![c] = IF pc[c] = "pooled" THEN "dead" ELSE "broken"]
    /\ UNCHANGED <<gate, local, idle, shells, closing, strays, ran, late>>

Wrong_discard_without_closing(c) ==
    /\ pc[c] = "dead"
    /\ Close(on(c), Left(c))
    /\ idle' = << >>
    /\ pc' = [pc EXCEPT ![c] = "opening"]
    /\ local' = [local EXCEPT ![c] = NoLocal]
    /\ UNCHANGED <<gate, closing, ran>>

\* _discard_idle, and on to the single retry.
_discard_idle(c) ==
    /\ pc[c] = "dead"
    /\ Close(on(c), Left(c))
    /\ closing' = closing \cup SessionsOf(idle)
    /\ idle' = << >>
    /\ pc' = [pc EXCEPT ![c] = "opening"]
    /\ local' = [local EXCEPT ![c] = NoLocal]
    /\ UNCHANGED <<gate, ran>>

Wrong_report_retries(c) ==
    /\ pc[c] = "broken"
    /\ Close(on(c), Left(c))
    /\ pc' = [pc EXCEPT ![c] = "opening"]
    /\ local' = [local EXCEPT ![c] = NoLocal]
    /\ UNCHANGED <<gate, idle, closing, ran>>

\* A fresh session that fails is not retried.
report(c) ==
    /\ pc[c] = "broken"
    /\ Close(on(c), Left(c))
    /\ Leave(c, "error")
    /\ UNCHANGED <<gate, idle, closing>>

Wrong_timeout_checks_in(c) ==
    /\ pc[c] \in {"pooled", "fresh"}
    /\ Leave(c, "timeout")
    /\ idle' = _checkin(idle, on(c))
    /\ closing' = closing \cup {on(c)}
    /\ late' = [late EXCEPT ![on(c)] = Left(c)]
    /\ UNCHANGED <<gate, shells, strays>>

\* The caller gives up on the worker thread and leaves the session to a
\* background thread.
run_times_out(c) ==
    /\ pc[c] \in {"pooled", "fresh"}
    /\ Leave(c, "timeout")
    /\ closing' = closing \cup {on(c)}
    /\ late' = [late EXCEPT ![on(c)] = Left(c)]
    /\ UNCHANGED <<gate, idle, shells, strays>>

-----------------------------------------------------------------------------
(* Threads, the server and time *)

\* A script nobody waits for takes effect after all: its call has been answered,
\* or is at its retry.
run_late(s) ==
    /\ late[s] # None
    /\ late' = [late EXCEPT ![s] = None]
    /\ ran' = [ran EXCEPT ![late[s]] = IF pc[late[s]] \in Active THEN @ + 1 ELSE @]
    /\ UNCHANGED <<gate, pc, local, idle, shells, closing, strays>>

\* _Runspace.close on a background thread.
close(s) ==
    /\ s \in closing
    /\ closing' = closing \ {s}
    /\ Close(s, late[s])
    /\ UNCHANGED <<gate, pc, local, idle, ran>>

\* WinRM's IdleTimeout, the only end of a shell this process has forgotten.
expire(s) ==
    /\ s \in strays
    /\ strays' = strays \ {s}
    /\ shells' = shells \ {s}
    /\ late' = [late EXCEPT ![s] = None]
    /\ UNCHANGED <<gate, pc, local, idle, closing, ran>>

\* Ages are only told apart up to MaxIdle.
tick ==
    /\ \E i \in DOMAIN idle : idle[i].age < MaxIdle
    /\ idle' = [i \in DOMAIN idle |->
                 [idle[i] EXCEPT !.age = IF @ < MaxIdle THEN @ + 1 ELSE @]]
    /\ UNCHANGED <<gate, pc, local, shells, closing, strays, ran, late>>

-----------------------------------------------------------------------------
(* The specification *)

Step(c) ==
    \/ execute(c) \/ open(c) \/ open_fails(c)
    \/ run(c) \/ run_returns(c) \/ run_raises(c) \/ run_times_out(c)
    \/ _discard_idle(c) \/ report(c)

Next ==
    \/ \E c \in Calls : Begin(c) \/ Step(c)
    \/ \E s \in Sessions : close(s) \/ run_late(s) \/ expire(s)
    \/ tick

Spec == Init /\ [][Next]_vars

\* Every open ends, every run ends or times out, and every close of a session
\* that failed ends: WinRM's own timeouts see to it.  Nothing is assumed of the
\* background threads.
FairSpec == Spec /\ \A c \in Calls : WF_vars(Step(c))
=============================================================================
