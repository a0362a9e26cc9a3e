----------------------------- MODULE Reconciler -----------------------------
(***************************************************************************)
(* Crossplane's provider-http in front of the API: for every resource a    *)
(* loop that reads the scope, and creates, updates or deletes it until     *)
(* what is read is what is wanted, polling ever after.  A resource that    *)
(* runs out of patience sends another request while the API is still at    *)
(* work on the last one, which nothing cancels.                            *)
(*                                                                         *)
(* The loop is no part of this repository: it is what README.md and        *)
(* docs/dhcp_values.md say of it, and what the API was made for.           *)
(***************************************************************************)
EXTENDS ScopeService

CONSTANTS
    Resources,  \* the managed resources, one scope each
    Managing,   \* resource |-> its scope
    Sending,    \* resource |-> the requests it may have in hand at once
    Starts      \* what the scopes are, and are wanted to be, to begin with

ASSUME ReconcilerAssumption ==
    /\ Managing \in [Resources -> Scopes]
    /\ Sending \in [Resources -> SUBSET Requests]
    /\ \A x, y \in Resources : x # y => Sending[x] \cap Sending[y] = {}
    /\ None \notin Resources
    /\ Verbs = {"GET", "POST", "PUT", "DELETE"}
    /\ \A s \in Scopes : \E x \in Resources : Managing[x] = s
    /\ \A start \in Starts, x \in Resources :
         {start[x].is, start[x].wanted} \subseteq Payloads \cup {None}

VARIABLES
    wanted,     \* resource |-> the payload it asks for; None: to be deleted
    waiting     \* resource |-> the request whose answer it waits for or has

client == <<wanted, waiting>>

-----------------------------------------------------------------------------
(* The loop *)

\* A request slot is taken again once its last request is through.
Ask(x, r, v, p) ==
    /\ pc[r] \in {"idle", "done"}
    /\ request' = [request EXCEPT ![r] = [verb |-> v, scope |-> Managing[x],
                                          desired |-> p]]
    /\ pc' = [pc EXCEPT ![r] = IF v = "GET" THEN "read" ELSE "locking"]
    /\ queue' = IF v = "GET" THEN queue
                ELSE [queue EXCEPT ![Managing[x]] = Append(@, r)]
    /\ reply' = [reply EXCEPT ![r] = None]
    /\ waiting' = [waiting EXCEPT ![x] = r]
    /\ UNCHANGED <<server, late, todo, faults, faulted, wanted>>

Free(x) == waiting[x] # None => pc[waiting[x]] = "done"

\* The answer to the resource's last request, if it has one.
Answer_of(x) ==
    IF waiting[x] # None /\ Free(x) THEN reply[waiting[x]] ELSE None

Observed(x, status) ==
    Answer_of(x) # None /\ verb(waiting[x]) = "GET" /\ Answer_of(x).status = status

\* What the resource does next: a change if the last thing it has is a reading
\* that calls for one, a reading otherwise.
Reconcile(x) ==
    /\ Free(x)
    /\ \E r \in Sending[x] :
         CASE Observed(x, "not_found") /\ wanted[x] # None ->
                Ask(x, r, "POST", wanted[x])
           [] Observed(x, "ok") /\ wanted[x] = None -> Ask(x, r, "DELETE", None)
           [] Observed(x, "ok") /\ wanted[x] # None /\ Answer_of(x).body # wanted[x] ->
                Ask(x, r, "PUT", wanted[x])
           [] OTHER ->
                ~(Observed(x, "not_found") /\ wanted[x] = None)
                  /\ Ask(x, r, "GET", None)

\* The resource stops waiting; this counts as one of the faults.
GiveUp(x) ==
    /\ ~Free(x)
    /\ faults < MaxFaults
    /\ faults' = faults + 1
    /\ waiting' = [waiting EXCEPT ![x] = None]
    /\ UNCHANGED <<server, late, queue, request, pc, todo, reply, faulted, wanted>>

-----------------------------------------------------------------------------
(* The specification *)

ReconcilerTypeOK ==
    /\ TypeOK
    /\ wanted \in [Resources -> Payloads \cup {None}]
    /\ waiting \in [Resources -> Requests \cup {None}]
    /\ \A x \in Resources : waiting[x] # None => waiting[x] \in Sending[x]

\* A start gives each resource the payload its scope is laid out with, and the
\* one that is wanted of it.
ReconcilerInit ==
    /\ \E start \in Starts :
         /\ server = Laid([s \in Scopes |->
                             start[CHOOSE x \in Resources : Managing[x] = s].is])
         /\ wanted = [x \in Resources |-> start[x].wanted]
    /\ late = {}
    /\ queue = [s \in Scopes |-> << >>]
    /\ request = [r \in Requests |-> None]
    /\ pc = [r \in Requests |-> "idle"]
    /\ todo = [r \in Requests |-> << >>]
    /\ reply = [r \in Requests |-> None]
    /\ faults = 0
    /\ faulted = {}
    /\ waiting = [x \in Resources |-> None]

Api(r) == (Handle(r) \/ LeaveBehind(r)) /\ UNCHANGED client

ReconcilerNext ==
    \/ \E x \in Resources : Reconcile(x) \/ GiveUp(x)
    \/ \E r \in Requests : Api(r)
    \/ RunLate /\ UNCHANGED client
    \/ Crash /\ UNCHANGED client

\* Resources poll, and the API deals with every request; nothing says when a
\* script that was given up on runs.
ReconcilerSpec ==
    /\ ReconcilerInit
    /\ [][ReconcilerNext]_<<vars, client>>
    /\ \A x \in Resources : WF_<<vars, client>>(Reconcile(x))
    /\ \A r \in Requests : WF_<<vars, client>>(Api(r))

-----------------------------------------------------------------------------
(* Properties *)

Settled(x) ==
    IF wanted[x] = None THEN ~Exists(server, Managing[x])
    ELSE /\ Reading(server, Managing[x]) = "ok"
         /\ Assembled(server, Managing[x]) = wanted[x]

\* Every resource comes to be what is wanted of it and stays so, whatever fails
\* on the way, whoever else joins or leaves the relationship meanwhile, and
\* whatever of an earlier request is still to be carried out (README.md: the
\* service reconciles the server with the desired state).
Converges == \A x \in Resources : <>[]Settled(x)

\* Every request is answered, also one nobody waits for any more, and one
\* behind another that fails.
EveryRequestEnds ==
    \A r \in Requests : pc[r] # "idle" ~> pc[r] = "done"
=============================================================================
