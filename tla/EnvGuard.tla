------------------------------ MODULE EnvGuard ------------------------------
(***************************************************************************)
(* validate_dhcp_environment of app/services/dhcp_service.py: every run_ps *)
(* and every health probe passes through it first.  One caller at a time,  *)
(* under a lock, consults a cache and probes the DHCP host when the cache  *)
(* has nothing to say; a success is kept for good, a failure for           *)
(* _NEGATIVE_CACHE_TTL_SECS.  Over PSRP a probe is one script on the       *)
(* target; locally it is a look at the operating system and two            *)
(* subprocesses, and the host may fail between them.                       *)
(***************************************************************************)
EXTENDS Integers, Sequences

CONSTANTS
    Callers,     \* run_ps and the health endpoint, one call at a time each
    TTL          \* _NEGATIVE_CACHE_TTL_SECS, in ticks

ASSUME TTLAssumption == TTL \in Nat \ {0}

VARIABLES
    setup,    \* DHCP_TRANSPORT, and the operating system if it is local
    up,       \* whether the host would pass a check of it
    checks,   \* the checks the probe under way has still to make
    cache,    \* _cache_ok and _cache_exc
    ttl,      \* what is left until _cache_negative_until
    queue,    \* callers at the lock, the holder first
    pc,       \* how far each caller has come
    age       \* (history) time since a failure was last cached

vars == <<setup, up, checks, cache, ttl, queue, pc, age>>

Pending == {"waiting", "probing"}

\* "raised": an exception that is no DhcpEnvironmentError, answered with 500.
Answered == {"passed", "refused", "raised"}

\* What _check_psrp_target, or _check_os, _check_powershell_binary and
\* _check_dhcp_cmdlets look at.
Check == {"target", "os", "powershell", "cmdlets"}

Checks ==
    IF setup = "psrp" THEN <<"target">> ELSE <<"os", "powershell", "cmdlets">>

TypeOK ==
    /\ setup \in {"psrp", "windows", "other"}
    /\ up \in BOOLEAN
    /\ checks \in Seq(Check)
    /\ cache \in {"unset", "ok", "failed"}
    /\ ttl \in 0 .. TTL
    /\ queue \in Seq(Callers)
    /\ pc \in [Callers -> {"idle"} \cup Pending \cup Answered]
    /\ \A c \in Callers :
         pc[c] \in Pending <=> \E i \in DOMAIN queue : queue[i] = c
    /\ age \in 0 .. TTL

\* No DHCP server runs on this host but Windows.
Init ==
    /\ setup \in {"psrp", "windows", "other"}
    /\ up \in BOOLEAN
    /\ setup = "other" => ~up
    /\ checks = << >>
    /\ cache = "unset"
    /\ ttl = 0
    /\ queue = << >>
    /\ pc = [c \in Callers |-> "idle"]
    /\ age = TTL

-----------------------------------------------------------------------------
(* A call *)

Begin(c) ==
    /\ pc[c] \notin Pending
    /\ pc' = [pc EXCEPT ![c] = "waiting"]
    /\ queue' = Append(queue, c)
    /\ UNCHANGED <<setup, up, checks, cache, ttl, age>>

\* (The variants named Wrong_... are wrong on purpose: what a plausible slip
\* would make of the definition they stand before.)
Wrong_lock_per_call(c) == pc[c] \in Pending

\* The caller holds _get_cache_lock().
locked(c) == queue # << >> /\ Head(queue) = c

\* The caller leaves the lock and the function.
Leave(c, outcome) ==
    /\ pc' = [pc EXCEPT ![c] = outcome]
    /\ queue' = Tail(queue)

return_cached(c) ==
    /\ locked(c)
    /\ pc[c] = "waiting"
    /\ cache = "ok"
    /\ Leave(c, "passed")
    /\ UNCHANGED <<setup, up, checks, cache, ttl, age>>

Wrong_never_expired == FALSE

Wrong_expired_early == ttl < TTL

negative_cache_expired == ttl = 0

Wrong_refusal_extends_ttl(c) ==
    /\ locked(c)
    /\ pc[c] = "waiting"
    /\ cache = "failed"
    /\ ~negative_cache_expired
    /\ Leave(c, "refused")
    /\ ttl' = TTL
    /\ UNCHANGED <<setup, up, checks, cache, age>>

raise_cached(c) ==
    /\ locked(c)
    /\ pc[c] = "waiting"
    /\ cache = "failed"
    /\ ~negative_cache_expired
    /\ Leave(c, "refused")
    /\ UNCHANGED <<setup, up, checks, cache, ttl, age>>

\* Nothing cached, or a failure that has expired and is forgotten first.
begin_checks(c) ==
    /\ locked(c)
    /\ pc[c] = "waiting"
    /\ cache = "unset" \/ (cache = "failed" /\ negative_cache_expired)
    /\ cache' = "unset"
    /\ checks' = Checks
    /\ pc' = [pc EXCEPT ![c] = "probing"]
    /\ UNCHANGED <<setup, up, ttl, queue, age>>

\* The check that is due would pass.  The operating system does not change.
passes == IF Head(checks) = "os" THEN setup = "windows" ELSE up

\* One check of several: _check_os, or a subprocess that exits with 0.
check_passes(c) ==
    /\ pc[c] = "probing"
    /\ passes
    /\ Tail(checks) # << >>
    /\ checks' = Tail(checks)
    /\ UNCHANGED <<setup, up, cache, ttl, queue, pc, age>>

\* The last of them.
checks_pass(c) ==
    /\ pc[c] = "probing"
    /\ passes
    /\ Tail(checks) = << >>
    /\ checks' = << >>
    /\ cache' = "ok"
    /\ Leave(c, "passed")
    /\ UNCHANGED <<setup, up, ttl, age>>

\* A DhcpEnvironmentError: a wrong system, no PowerShell or session, no cmdlet,
\* a timeout (a subprocess that times out is killed first).
checks_fail(c) ==
    /\ pc[c] = "probing"
    /\ ~passes
    /\ checks' = << >>
    /\ cache' = "failed"
    /\ ttl' = TTL
    /\ age' = 0
    /\ Leave(c, "refused")
    /\ UNCHANGED <<setup, up>>

Wrong_lock_kept_on_raise(c) ==
    /\ pc[c] = "probing"
    /\ ~passes
    /\ Head(checks) # "os"
    /\ checks' = << >>
    /\ pc' = [pc EXCEPT ![c] = "raised"]
    /\ UNCHANGED <<setup, up, cache, ttl, queue, age>>

\* The session opens but the script on it dies, or no process can be started:
\* nothing catches that exception, and nothing is cached.
checks_raise(c) ==
    /\ pc[c] = "probing"
    /\ ~passes
    /\ Head(checks) # "os"
    /\ checks' = << >>
    /\ Leave(c, "raised")
    /\ UNCHANGED <<setup, up, cache, ttl, age>>

-----------------------------------------------------------------------------
(* The host and time *)

host_fails ==
    /\ up
    /\ up' = FALSE
    /\ UNCHANGED <<setup, checks, cache, ttl, queue, pc, age>>

host_recovers ==
    /\ ~up
    /\ setup # "other"
    /\ up' = TRUE
    /\ UNCHANGED <<setup, checks, cache, ttl, queue, pc, age>>

\* Ages are only told apart up to TTL.
tick ==
    /\ ttl > 0 \/ age < TTL
    /\ ttl' = IF ttl > 0 THEN ttl - 1 ELSE 0
    /\ age' = IF age < TTL THEN age + 1 ELSE TTL
    /\ UNCHANGED <<setup, up, checks, cache, queue, pc>>

-----------------------------------------------------------------------------
(* The specification *)

Step(c) ==
    \/ return_cached(c) \/ raise_cached(c) \/ begin_checks(c)
    \/ check_passes(c) \/ checks_pass(c) \/ checks_fail(c) \/ checks_raise(c)

Next ==
    \/ \E c \in Callers : Begin(c) \/ Step(c)
    \/ host_fails \/ host_recovers \/ tick

Spec == Init /\ [][Next]_vars

\* Every check ends, and time passes.
FairSpec == Spec /\ WF_vars(tick) /\ \A c \in Callers : WF_vars(Step(c))

-----------------------------------------------------------------------------
(* Properties *)

\* However many requests arrive at a cold or expired cache, one probe is under
\* way ("inside the lock to prevent duplicate PowerShell checks under
\* concurrent startup traffic").
OneProbeAtATime ==
    \A c, d \in Callers : pc[c] = "probing" /\ pc[d] = "probing" => c = d

\* A refusal rests on a probe that failed less than TTL ago, so a steady
\* stream of refused requests cannot keep an old failure alive.
RefusalsAreFresh ==
    [][\A c \in Callers :
          pc[c] \in Pending /\ pc'[c] = "refused" => age < TTL \/ age' = 0]_vars

\* Once the host is up for good, refusals come to an end without a restart.
Recovers ==
    <>[]up => <>[][\A c \in Callers :
                      pc[c] \in Pending => pc'[c] # "refused"]_vars

\* Every call leaves the lock, whatever becomes of the probes before it.
EveryCallLeaves ==
    \A c \in Callers : pc[c] = "waiting" ~> pc[c] \in Answered

\* After a cached failure the host is left alone for TTL, whoever calls
\* ("Failed checks are cached briefly and retried after the negative-cache
\* TTL", README.md).  A check that raises is not cached, and not covered.
BacksOff ==
    [][\A c \in Callers :
          pc[c] = "waiting" /\ pc'[c] = "probing" => age = TTL]_vars
=============================================================================
