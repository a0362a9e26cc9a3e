----------------------------- MODULE Convergence -----------------------------
(***************************************************************************)
(* A write request as its client sees it: in one step the scope becomes    *)
(* what the request asks for.  Each step performs the whole plan of        *)
(* ScopePlan on the server, with nobody else about, so the reachable       *)
(* transitions are all the moves from one payload to another.              *)
(***************************************************************************)
EXTENDS ScopePlan

Seqs == INSTANCE SequencesExt

CONSTANTS
    Scope,      \* the scope written
    Payloads    \* what may be asked of it

ASSUME ConvergenceAssumption ==
    Scope \in Scopes /\ Payloads \subseteq {p \in Payload : Valid(p)}

VARIABLES
    server,     \* the DHCP server
    asked,      \* the payload last asked for; None once deleted
    outcomes,   \* what the last plan's cmdlets answered
    pools       \* the distribution ranges it went through, in order

vars == <<server, asked, outcomes, pools>>

-----------------------------------------------------------------------------
(* Performing a plan *)

\* The cmdlets a step comes to, given the server it meets.
Resolve(srv, do) ==
    CASE do.op = "AddExclusions" ->
           [i \in 1 .. Cardinality(do.arg) |->
              [op |-> "AddExclusion", arg |-> Seqs!SetToSeq(do.arg)[i]]]
      [] do.op = "RemoveExclusions" ->
           [i \in 1 .. Cardinality(do.arg) |->
              [op |-> "RemoveExclusion", arg |-> Seqs!SetToSeq(do.arg)[i]]]
      [] do.op = "SetupFailover" ->
           IF srv.rels[do.arg.name] # None
           THEN <<[op |-> "AddToRelationship", arg |-> do.arg.name]>>
           ELSE <<[op |-> "CreateRelationship", arg |-> do.arg]>>
      [] do.op = "CleanupRelationship" ->
           When(srv.rels[do.arg] # None /\ srv.rels[do.arg].members = {},
                <<[op |-> "RemoveRelationship", arg |-> do.arg]>>)
      [] do.op \notin {"AddExclusions", "RemoveExclusions", "SetupFailover",
                       "CleanupRelationship"} -> <<do>>

RunOne(state, cmdlet) ==
    LET answer == Run(state.server, Scope, cmdlet)
    IN  [server |-> answer.server,
         outcomes |-> state.outcomes \cup {answer.outcome},
         pools |-> state.pools
                     \o When(cmdlet.op = "SetRange", <<cmdlet.arg>>)]

Perform(state, step) ==
    Seqs!FoldLeft(RunOne, state, Resolve(state.server, step.do))

Follow(plan) ==
    Seqs!FoldLeft(Perform, [server |-> server, outcomes |-> {}, pools |-> << >>],
                  plan)

Become(state) ==
    /\ server' = state.server
    /\ outcomes' = state.outcomes
    /\ pools' = state.pools

-----------------------------------------------------------------------------
(* The specification *)

TypeOK ==
    /\ server \in Server
    /\ asked \in Payloads \cup {None}
    /\ outcomes \in SUBSET ({"ok"} \cup CmdletErrors)
    /\ pools \in Seq(Range)

Init ==
    /\ server = [scopes |-> [s \in Scopes |-> None],
                 rels |-> [n \in Names |-> None], synced |-> {}]
    /\ asked = None
    /\ outcomes = {}
    /\ pools = << >>

Create(p) ==
    /\ asked = None
    /\ Become(Follow(create_plan(p)))
    /\ asked' = p

Converge(p) ==
    /\ asked # None
    /\ p.mask = asked.mask
    /\ Become(Follow(converge_plan(Assembled(server, Scope), p)))
    /\ asked' = p

Delete ==
    /\ asked # None
    /\ Become(Follow(delete_plan(Assembled(server, Scope))))
    /\ asked' = None

Next ==
    \/ \E p \in Payloads : Create(p) \/ Converge(p)
    \/ Delete

Spec == Init /\ [][Next]_vars

-----------------------------------------------------------------------------
(* Properties *)

\* The scope on the server is exactly what was asked for last, relationship and
\* partner copy included; after a delete nothing of it is left
\* (create_scope, _converge_scope, delete_scope).
AskedIsHeld ==
    IF asked = None
    THEN ~Exists(server, Scope) /\ \A n \in Names : server.rels[n] = None
    ELSE /\ Reading(server, Scope) = "ok"
         /\ Assembled(server, Scope) = asked
         /\ asked.failover # None => Scope \in server.synced

\* No cmdlet of a plan computed from what the server holds is turned down: the
\* diff neither adds what is there nor removes what is not, and every range
\* write is one Windows accepts.
NothingRefused == outcomes \subseteq {"ok"}

\* The pool of a scope that exists never leaves the union of the range it had
\* and the range asked for, and when the two meet it never hands out an address
\* outside both (the docstring of _range_transition_steps).
PoolStaysBetween ==
    [][asked # None /\ asked' # None =>
         \A i \in DOMAIN pools' : \A a \in Address :
           Covers(pools'[i], a) =>
             /\ Covers(Union(asked.range, asked'.range), a)
             /\ \/ Covers(asked.range, a)
                \/ Covers(asked'.range, a)
                \/ asked.range[2] < asked'.range[1]
                \/ asked'.range[2] < asked.range[1]]_vars

\* Asking for what the server already holds issues no cmdlet, and asking for
\* anything else issues at least one.
NoCmdletForNoChange ==
    [][asked # None /\ asked' # None => (outcomes' = {} <=> asked' = asked)]_vars
=============================================================================
