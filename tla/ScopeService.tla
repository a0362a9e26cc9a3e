---------------------------- MODULE ScopeService ----------------------------
(***************************************************************************)
(* The request handlers of app/services/scope_service.py over the DHCP     *)
(* server: GET, POST, PUT and DELETE of a scope, each a coroutine that     *)
(* gives way at every script it awaits.  Writes hold the per-scope lock of *)
(* app/utils/locks.py; nothing holds a lock on a failover relationship,    *)
(* which scopes share.                                                     *)
(*                                                                         *)
(* A script can fail in the ways the transport can produce.  The faults a  *)
(* model allows are the constant Faults:                                   *)
(*   failed   the script ends in an error record, having done nothing      *)
(*   timeout  the caller gives up; the script did nothing, or all of it    *)
(*   late     a run of the script is given up, with the caller or with the *)
(*            session it was on, and happens later, lock or no lock        *)
(*   broken   an exception that is not a PowerShellError, before or after  *)
(*            the script's effect                                          *)
(*   rerun    the session dies once the script has run and the pool's      *)
(*            retry runs it again: the second answer is the one reported   *)
(*   crash    the API process restarts                                     *)
(***************************************************************************)
EXTENDS ScopePlan

CONSTANTS
    Requests,   \* HTTP requests, each made once
    Verbs,      \* the verbs clients use here
    Payloads,   \* the request bodies clients send
    Faults,     \* the faults that may happen
    MaxFaults   \* how many of them, in all

FaultKinds == {"failed", "timeout", "late", "broken", "rerun", "crash"}

ASSUME ServiceAssumption ==
    /\ Verbs \subseteq {"GET", "POST", "PUT", "DELETE"}
    /\ Payloads \subseteq {p \in Payload : Valid(p)}
    /\ Faults \subseteq FaultKinds
    /\ MaxFaults \in Nat
    /\ None \notin Requests
    /\ None \notin Payload

VARIABLES
    server,     \* the DHCP server
    late,       \* scripts given up on that have yet to run
    queue,      \* per scope: the lock's holder, then its waiters in order
    request,    \* what each request asks for
    pc,         \* how far each request has come
    todo,       \* the steps a write has still to take
    reply,      \* the response, once there is one
    faults,     \* how many faults have happened
    faulted     \* (history) the requests that met a fault

vars == <<server, late, queue, request, pc, todo, reply, faults, faulted>>

-----------------------------------------------------------------------------
(* Types *)

Request == [verb : Verbs, scope : Scopes, desired : Payloads \cup {None}]

Statuses == {"ok", "gone", "not_found", "immutable_field", "conflict",
             "error", "timeout"}

Reply == [status : Statuses, body : Payload \cup {None}]

\* The stages of a write that hold the scope's lock.
Locked == {"exists", "assemble", "create", "converge", "delete"}

Stages == {"idle", "locking", "read", "done"} \cup Locked

Script == [scope : Scopes, cmdlet : Cmdlet]

TypeOK ==
    /\ server \in Server
    /\ late \in SUBSET Script
    /\ queue \in [Scopes -> Seq(Requests)]
    /\ request \in [Requests -> Request \cup {None}]
    /\ pc \in [Requests -> Stages]
    /\ todo \in [Requests -> Seq(Step)]
    /\ reply \in [Requests -> Reply \cup {None}]
    /\ faults \in 0 .. MaxFaults
    /\ faulted \in SUBSET Requests

-----------------------------------------------------------------------------
(* Initial states: every scope absent, or exactly as some payload asks. *)

Lay(p) ==
    [mask |-> p.mask, range |-> p.range, params |-> p.params, dns |-> p.dns,
     gateway |-> p.gateway, next |-> p.next, file |-> p.file,
     exclusions |-> p.exclusions]

\* The scopes that an assignment `f` of payloads puts in the relationship n.
Joining(f, n) ==
    {s \in Scopes : f[s] # None /\ f[s].failover # None /\ f[s].failover.name = n}

\* Scopes that share a relationship ask for the same settings of it.
Agree(f) ==
    \A n \in Names : \A s, t \in Joining(f, n) : f[s].failover = f[t].failover

Laid(f) ==
    [scopes |-> [s \in Scopes |-> IF f[s] = None THEN None ELSE Lay(f[s])],
     rels |-> [n \in Names |->
                IF Joining(f, n) = {} THEN None
                ELSE LET s == CHOOSE s \in Joining(f, n) : TRUE
                     IN  [peer |-> f[s].failover.peer,
                          tuning |-> f[s].failover.tuning,
                          members |-> Joining(f, n)]],
     synced |-> UNION {Joining(f, n) : n \in Names}]

Init ==
    /\ \E f \in [Scopes -> Payloads \cup {None}] :
         Agree(f) /\ server = Laid(f)
    /\ late = {}
    /\ queue = [s \in Scopes |-> << >>]
    /\ request = [r \in Requests |-> None]
    /\ pc = [r \in Requests |-> "idle"]
    /\ todo = [r \in Requests |-> << >>]
    /\ reply = [r \in Requests |-> None]
    /\ faults = 0
    /\ faulted = {}

-----------------------------------------------------------------------------
(* Requests, the lock and responses *)

scope(r) == request[r].scope

verb(r) == request[r].verb

Submit(r, v, s, p) ==
    /\ pc[r] = "idle"
    /\ request' = [request EXCEPT ![r] = [verb |-> v, scope |-> s, desired |-> p]]
    /\ IF v = "GET"
       THEN /\ pc' = [pc EXCEPT ![r] = "read"]
            /\ UNCHANGED queue
       ELSE /\ pc' = [pc EXCEPT ![r] = "locking"]
            /\ queue' = [queue EXCEPT ![s] = Append(@, r)]
    /\ UNCHANGED <<server, late, todo, reply, faults, faulted>>

\* (The variants named Wrong_... are wrong on purpose.)
Wrong_lock_not_taken(r) ==
    /\ pc[r] = "locking"
    /\ pc' = [pc EXCEPT ![r] = IF verb(r) = "PUT" THEN "assemble" ELSE "exists"]
    /\ UNCHANGED <<server, late, queue, request, todo, reply, faults, faulted>>

\* asyncio.Lock is fair: the longest waiter is the next holder.
lock(r) ==
    /\ pc[r] = "locking"
    /\ queue[scope(r)] # << >>
    /\ Head(queue[scope(r)]) = r
    /\ pc' = [pc EXCEPT ![r] = IF verb(r) = "PUT" THEN "assemble" ELSE "exists"]
    /\ UNCHANGED <<server, late, queue, request, todo, reply, faults, faulted>>

Wrong_release_on_return_only(r) ==
    queue' = IF pc[r] \in Locked /\ todo[r] = << >>
             THEN [queue EXCEPT ![scope(r)] = Tail(@)]
             ELSE queue

\* Leaving `async with scope_locks.lock(scope)`, by return or by exception.
Release(r) ==
    queue' = IF pc[r] \in Locked
             THEN [queue EXCEPT ![scope(r)] = Tail(@)]
             ELSE queue

Answer(r, status, body) ==
    /\ reply' = [reply EXCEPT ![r] = [status |-> status, body |-> body]]
    /\ pc' = [pc EXCEPT ![r] = "done"]
    /\ todo' = [todo EXCEPT ![r] = << >>]
    /\ Release(r)

\* The status an unhandled PowerShell or transport error is reported with: a
\* refused range carries the number of an exclusion that is already present.
ErrorStatus(outcome) ==
    CASE outcome = "timeout" -> "timeout"
      [] outcome \in {"alreadyExists", "refused"} -> "conflict"
      [] outcome \in {"notFound", "failed", "broken"} -> "error"

Proceed(r, stage, steps) ==
    /\ pc' = [pc EXCEPT ![r] = stage]
    /\ todo' = [todo EXCEPT ![r] = steps]
    /\ UNCHANGED <<queue, reply>>

-----------------------------------------------------------------------------
(* Reads *)

\* The response to a scope that cannot be read as a payload.
Unreadable(r, reading) ==
    Answer(r, CASE reading = "missing" -> "not_found"
                [] reading = "conflict" -> "conflict"
                [] reading = "invalid" -> "error", None)

get_scope(r) ==
    /\ pc[r] = "read"
    /\ IF Reading(server, scope(r)) = "ok"
       THEN Answer(r, "ok", Assembled(server, scope(r)))
       ELSE Unreadable(r, Reading(server, scope(r)))
    /\ UNCHANGED <<server, late, request, faults, faulted>>

scope_exists(r) ==
    /\ pc[r] = "exists"
    /\ CASE Exists(server, scope(r)) -> Proceed(r, "assemble", << >>)
         [] ~Exists(server, scope(r)) /\ verb(r) = "POST" ->
              Proceed(r, "create", create_plan(request[r].desired))
         [] ~Exists(server, scope(r)) /\ verb(r) # "POST" ->
              Answer(r, "gone", None)
    /\ UNCHANGED <<server, late, request, faults, faulted>>

\* The head of _converge_scope: read, refuse a new mask, diff.
assemble_to_converge(r) ==
    LET current == Assembled(server, scope(r))
        desired == request[r].desired
    IN  /\ pc[r] = "assemble"
        /\ verb(r) # "DELETE"
        /\ CASE Reading(server, scope(r)) # "ok" ->
                  Unreadable(r, Reading(server, scope(r)))
             [] Reading(server, scope(r)) = "ok" /\ current.mask # desired.mask ->
                  Answer(r, "immutable_field", None)
             [] Reading(server, scope(r)) = "ok" /\ current.mask = desired.mask ->
                  Proceed(r, "converge", converge_plan(current, desired))
        /\ UNCHANGED <<server, late, request, faults, faulted>>

assemble_to_delete(r) ==
    /\ pc[r] = "assemble"
    /\ verb(r) = "DELETE"
    /\ CASE Reading(server, scope(r)) = "ok" ->
              Proceed(r, "delete", delete_plan(Assembled(server, scope(r))))
         [] Reading(server, scope(r)) = "missing" -> Answer(r, "gone", None)
         [] Reading(server, scope(r)) \in {"conflict", "invalid"} ->
              Unreadable(r, Reading(server, scope(r)))
    /\ UNCHANGED <<server, late, request, faults, faulted>>

\* The read that produces the body of a 200.  Only converging turns a scope
\* that has disappeared into a 404.
respond(r) ==
    LET reading == Reading(server, scope(r))
    IN  /\ pc[r] \in {"create", "converge"}
        /\ todo[r] = << >>
        /\ CASE reading = "ok" -> Answer(r, "ok", Assembled(server, scope(r)))
             [] reading = "missing" /\ pc[r] = "create" -> Answer(r, "error", None)
             [] reading # "ok" /\ ~(reading = "missing" /\ pc[r] = "create") ->
                  Unreadable(r, reading)
        /\ UNCHANGED <<server, late, request, faults, faulted>>

respond_deleted(r) ==
    /\ pc[r] = "delete"
    /\ todo[r] = << >>
    /\ Answer(r, "gone", None)
    /\ UNCHANGED <<server, late, request, faults, faulted>>

-----------------------------------------------------------------------------
(* Writes *)

Single == [AddExclusions |-> "AddExclusion", RemoveExclusions |-> "RemoveExclusion"]

BatchOps == {"AddExclusions", "RemoveExclusions"}

LookupOps == {"SetupFailover", "CleanupRelationship"}

\* The cmdlets the next step of `steps` may issue first: with each, the steps
\* left once it is done.
Issuable(steps) ==
    LET step == Head(steps).do
    IN  CASE step.op \in BatchOps ->
               {[cmdlet |-> [op |-> Single[step.op], arg |-> x],
                 rest |-> When(step.arg # {x},
                               <<[Head(steps) EXCEPT !.do.arg = @ \ {x}]>>)
                            \o Tail(steps)] : x \in step.arg}
          [] step.op \in LookupOps -> {}
          [] step.op \notin BatchOps \cup LookupOps ->
               {[cmdlet |-> step, rest |-> Tail(steps)]}

Issuing(r) ==
    IF pc[r] \in {"create", "converge", "delete"} /\ todo[r] # << >>
    THEN Issuable(todo[r]) ELSE {}

\* run_ps and _run_ps: what the request makes of a script's outcome.
Conclude(r, rest, outcome) ==
    IF outcome \in {"ok"} \cup Head(todo[r]).tolerates
    THEN Proceed(r, pc[r], rest)
    ELSE Answer(r, ErrorStatus(outcome), None)

_run_ps(r) ==
    \E c \in Issuing(r) :
        LET answer == Run(server, scope(r), c.cmdlet)
        IN  /\ server' = answer.server
            /\ Conclude(r, c.rest, answer.outcome)
            /\ UNCHANGED <<late, request, faults, faulted>>

\* _fetch_failover_by_name, and what _setup_failover or
\* _remove_scope_from_failover does next.
_fetch_failover_by_name(r) ==
    /\ pc[r] \in {"create", "converge", "delete"}
    /\ todo[r] # << >>
    /\ LET step == Head(todo[r]).do
       IN  \/ /\ step.op = "SetupFailover"
              /\ Proceed(r, pc[r],
                   <<IF server.rels[step.arg.name] # None
                     THEN Tolerant("AddToRelationship", step.arg.name,
                                   {"alreadyExists"})
                     ELSE Call("CreateRelationship", step.arg)>>
                     \o Tail(todo[r]))
           \/ /\ step.op = "CleanupRelationship"
              /\ Proceed(r, pc[r],
                   When(/\ server.rels[step.arg] # None
                        /\ server.rels[step.arg].members = {},
                        <<Call("RemoveRelationship", step.arg)>>)
                     \o Tail(todo[r]))
    /\ UNCHANGED <<server, late, request, faults, faulted>>

-----------------------------------------------------------------------------
(* Faults *)

Fault(kind, victims) ==
    /\ kind \in Faults
    /\ faults < MaxFaults
    /\ faults' = faults + 1
    /\ faulted' = faulted \cup victims

\* A read fails: a GET, the existence check, the assembly, a lookup, or the
\* read behind the response.
FailRead(r) ==
    /\ \/ pc[r] \in {"read", "exists", "assemble"}
       \/ pc[r] \in {"create", "converge"} /\ todo[r] = << >>
       \/ /\ pc[r] \in {"create", "converge", "delete"}
          /\ todo[r] # << >>
          /\ Head(todo[r]).do.op \in LookupOps
    /\ \E kind \in {"failed", "timeout", "broken"} :
         Fault(kind, {r}) /\ Answer(r, ErrorStatus(kind), None)
    /\ UNCHANGED <<server, late, request>>

\* A cmdlet fails, after its effect or without it.
FailCmdlet(r) ==
    \E c \in Issuing(r), kind \in {"failed", "timeout", "broken"} :
        /\ Fault(kind, {r})
        /\ \/ UNCHANGED server
           \/ /\ kind # "failed"
              /\ server' = Run(server, scope(r), c.cmdlet).server
        /\ Conclude(r, c.rest, kind)
        /\ UNCHANGED <<late, request>>

\* A cmdlet is given up on and may run later: the caller timed out, or the
\* session failed.  The retry of a failed one may overtake it.
LeaveBehind(r) ==
    \E c \in Issuing(r) :
        LET answer == Run(server, scope(r), c.cmdlet)
        IN  /\ Fault("late", {r})
            /\ late' = late \cup {[scope |-> scope(r), cmdlet |-> c.cmdlet]}
            /\ \/ /\ server' \in {server, answer.server}
                  /\ \E kind \in {"timeout", "broken"} : Conclude(r, c.rest, kind)
               \/ /\ server' = answer.server
                  /\ Conclude(r, c.rest, answer.outcome)
            /\ UNCHANGED request

RunLate ==
    \E script \in late :
        /\ server' = Run(server, script.scope, script.cmdlet).server
        /\ late' = late \ {script}
        /\ UNCHANGED <<queue, request, pc, todo, reply, faults, faulted>>

\* PsrpTransport.execute runs the script once more on a fresh session.
Rerun(r) ==
    \E c \in Issuing(r) :
        LET first == Run(server, scope(r), c.cmdlet)
            again == Run(first.server, scope(r), c.cmdlet)
        IN  /\ Fault("rerun", {r})
            /\ server' = again.server
            /\ Conclude(r, c.rest, again.outcome)
            /\ UNCHANGED <<late, request>>

\* The process restarts: locks and requests in hand are gone, unanswered.
Crash ==
    LET victims == {r \in Requests : pc[r] \notin {"idle", "done"}}
    IN  /\ victims # {}
        /\ Fault("crash", victims)
        /\ queue' = [s \in Scopes |-> << >>]
        /\ pc' = [r \in Requests |-> IF r \in victims THEN "done" ELSE pc[r]]
        /\ todo' = [r \in Requests |-> << >>]
        /\ UNCHANGED <<server, late, request, reply>>

-----------------------------------------------------------------------------
(* The specification *)

Client(r) ==
    \E v \in Verbs, s \in Scopes :
        \E p \in IF v \in {"POST", "PUT"} THEN Payloads ELSE {None} :
            Submit(r, v, s, p)

Handle(r) ==
    \/ lock(r)
    \/ get_scope(r)
    \/ scope_exists(r)
    \/ assemble_to_converge(r)
    \/ assemble_to_delete(r)
    \/ _run_ps(r)
    \/ _fetch_failover_by_name(r)
    \/ respond(r)
    \/ respond_deleted(r)
    \/ FailRead(r)
    \/ FailCmdlet(r)
    \/ Rerun(r)

Next ==
    \/ \E r \in Requests : Client(r) \/ Handle(r)
    \/ Crash

Spec == Init /\ [][Next]_vars

\* With scripts that run after they have been given up.
LateNext ==
    \/ Next
    \/ \E r \in Requests : LeaveBehind(r)
    \/ RunLate

LateSpec == Init /\ [][LateNext]_vars
=============================================================================
