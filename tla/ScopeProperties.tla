--------------------------- MODULE ScopeProperties ---------------------------
(***************************************************************************)
(* What the request handlers promise: to a client about its own request,   *)
(* to the other clients, and to the DHCP server's failover relationships.  *)
(***************************************************************************)
EXTENDS ScopeService

Answered(r, status) == reply[r] # None /\ reply[r].status = status

IsWrite(r) == request[r] # None /\ verb(r) # "GET"

\* The step answers request r, and with this status.
Answers_now(r, status) ==
    pc[r] # "done" /\ reply'[r] # None /\ reply'[r].status = status

-----------------------------------------------------------------------------
(* Safety *)

\* At most one write is past the lock of any scope: between a request's first
\* read and its last cmdlet no other request writes the same scope
\* (locks.py, and `async with scope_locks.lock(scope)` in every write).
OneWriterPerScope ==
    \A r1, r2 \in Requests :
        pc[r1] \in Locked /\ pc[r2] \in Locked /\ scope(r1) = scope(r2)
            => r1 = r2

\* With nothing going wrong, no write ends in an error: the plan computed from
\* the state read at the start is accepted by the server, cmdlet by cmdlet, to
\* the end (range steps through the union, tolerated removals, the lock).
FaultlessWritesSucceed ==
    faults = 0 =>
        \A r \in Requests : IsWrite(r) =>
            ~(\E status \in {"conflict", "error", "timeout"} : Answered(r, status))

\* With nothing going wrong, a 200 to POST or PUT carries the state the request
\* asked for, failover included.
BodyIsRequest ==
    faults = 0 =>
        \A r \in Requests :
            Answered(r, "ok") /\ verb(r) # "GET" => reply[r].body = request[r].desired

\* Whatever has failed, a 200 to POST or PUT carries every field of the scope
\* itself as requested.
ConfigIsRequest ==
    \A r \in Requests :
        Answered(r, "ok") /\ verb(r) # "GET" =>
            [reply[r].body EXCEPT !.failover = None] =
                [request[r].desired EXCEPT !.failover = None]

\* A relationship never lists a scope that is gone: the delete path detaches
\* the scope before it removes it, wherever it is interrupted.
MembersExist ==
    \A n \in Names : server.rels[n] # None =>
        \A s \in server.rels[n].members : Exists(server, s)

\* A request that met no fault of its own succeeds: whatever an earlier attempt
\* left half-written, the next one repairs.
RetryRepairs ==
    \A r \in Requests : IsWrite(r) /\ r \notin faulted =>
        ~(\E status \in {"conflict", "error", "timeout"} : Answered(r, status))

\* Some request has still to clean up the relationship n.
CleaningUp(n) ==
    \E r \in Requests : \E i \in 1 .. Len(todo[r]) :
        /\ todo[r][i].do.op \in {"CleanupRelationship", "RemoveRelationship"}
        /\ todo[r][i].do.arg = n

\* An empty relationship is one that somebody is about to remove.
NoOrphanedRelationship ==
    \A n \in Names :
        server.rels[n] # None /\ server.rels[n].members = {} => CleaningUp(n)

\* No request leaves an empty relationship behind by itself: that takes a fault.
OrphansTakeFaults == faults = 0 => NoOrphanedRelationship

-----------------------------------------------------------------------------
(* Action properties *)

\* A 204 to DELETE is only given for a scope that is gone, and no relationship
\* lists it.
DeletedMeansGone ==
    [][\A r \in Requests : Answers_now(r, "gone") =>
          /\ ~Exists(server', scope(r))
          /\ RelationshipsOf(server', scope(r)) = {}]_vars

\* A 200 that asks for failover is given while the partner's copy is stale.
AnswersStale(r) ==
    /\ Answers_now(r, "ok")
    /\ verb(r) # "GET"
    /\ request[r].desired.failover # None
    /\ scope(r) \notin server'.synced

\* When a write that asks for failover is answered 200, the partner's copy of
\* the scope is up to date.
PartnerInSync == [][\A r \in Requests : ~AnswersStale(r)]_vars

\* With nothing going wrong it is: whatever changes a write makes, and whatever
\* the one before it made, replication follows them.
PartnerFollows == [][faults = 0 => \A r \in Requests : ~AnswersStale(r)]_vars
=============================================================================
