-------------------------- MODULE PsrpPoolProperties --------------------------
(***************************************************************************)
(* What the pool promises: to run_ps, as Transport states it; and to the   *)
(* DHCP server, on which every session left behind costs a shell.          *)
(***************************************************************************)
EXTENDS PsrpPool

\* A session is used by one call at a time, is not parked meanwhile, and is not
\* parked twice; one that is being closed, or that has been forgotten, is
\* neither (the docstring of _Runspace: "only ever used by one task at a time").
NoSharedSession ==
    /\ \A c, d \in Calls : on(c) = on(d) /\ on(c) # None => c = d
    /\ \A i, j \in DOMAIN idle : idle[i].session = idle[j].session => i = j
    /\ SessionsOf(idle) \cap Held = {}
    /\ (closing \cup strays) \cap (SessionsOf(idle) \cup Held) = {}
    /\ closing \cap strays = {}

\* Every shell on the server belongs to a session that is parked, in use or
\* about to be closed, or is one whose own close, or open, has failed: no path
\* through a failure, a retry, an expiry or a timeout forgets a session without
\* having tried to close it (_discard_idle: "closed rather than merely dropped").
NothingStranded ==
    shells \subseteq SessionsOf(idle) \cup Held \cup closing \cup strays

\* The pool is ordered: what lies under a parked session was parked earlier, so
\* once the top one is too old the loop of _checkout is right to drain it all.
OldestFirst ==
    \A i, j \in DOMAIN idle : i < j => idle[i].age >= idle[j].age

\* Sessions parked or in use never outnumber the semaphore's slots: one is only
\* opened when none is parked, and only by a call that has a slot.
PoolWithinLimit ==
    Cardinality(SessionsOf(idle) \cup Held) <= MaxConcurrency

-----------------------------------------------------------------------------
(* The pool implements Transport. *)

T == INSTANCE Transport WITH
       state <- [c \in Calls |->
                  IF pc[c] \in {"waiting"} \cup Active THEN "pending" ELSE pc[c]],
       late <- [c \in Calls |-> Cardinality({s \in Sessions : late[s] = c})]

\* A script runs at most twice, the runs that nobody waits for any more counted
\* in, and a result means it has run (the docstring of execute: the retry "fires
\* only for a runspace taken from the pool", and "a timeout never retries").
ImplementsTransport == T!Spec

\* Every call is answered, whatever the sessions do and whoever else waits.
EveryCallEnds == \A c \in Calls : pc[c] = "waiting" ~> pc[c] \in Answered
=============================================================================
