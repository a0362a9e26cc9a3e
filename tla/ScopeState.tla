----------------------------- MODULE ScopeState -----------------------------
(***************************************************************************)
(* What the service reads of a scope: the payload assembled from one       *)
(* PowerShell script (app/services/ps_parsers.py) and the rules of the     *)
(* pydantic model it is put through (app/models/scope.py).  The same model *)
(* validates request bodies, so an observed scope that breaks one of the   *)
(* rules cannot be read at all.                                            *)
(***************************************************************************)
EXTENDS DhcpServer

Payload ==
    [mask : Masks, range : Range, params : Params, dns : Dns,
     gateway : Address \cup {None},
     next : BootHosts \cup {None}, file : BootFiles \cup {None},
     exclusions : SUBSET Range, failover : Failover \cup {None}]

-----------------------------------------------------------------------------
(* Cross-field rules *)

pxe_options_set_together(p) == (p.next = None) <=> (p.file = None)

Covers(x, address) == x[1] <= address /\ address <= x[2]

no_overlapping_exclusions(p) ==
    \A x, y \in p.exclusions : x # y => x[2] < y[1] \/ y[2] < x[1]

gateway_not_in_distribution_range(p) ==
    p.gateway # None /\ Covers(p.range, p.gateway)
        => \E x \in p.exclusions : Covers(x, p.gateway)

Valid(p) ==
    /\ pxe_options_set_together(p)
    /\ no_overlapping_exclusions(p)
    /\ gateway_not_in_distribution_range(p)

-----------------------------------------------------------------------------
(* Assembly *)

\* The script takes the first relationship that lists the scope.
failover_of(srv, s) ==
    IF RelationshipsOf(srv, s) = {} THEN None
    ELSE LET n == CHOOSE n \in RelationshipsOf(srv, s) : TRUE
         IN  [name |-> n, peer |-> srv.rels[n].peer,
              tuning |-> srv.rels[n].tuning]

Assembled(srv, s) ==
    LET held == srv.scopes[s]
    IN  [mask |-> held.mask, range |-> held.range, params |-> held.params,
         dns |-> held.dns, gateway |-> held.gateway,
         next |-> held.next, file |-> held.file,
         exclusions |-> held.exclusions, failover |-> failover_of(srv, s)]

\* How assemble_scope_state ends: no such scope (a not-found error), no DNS
\* servers (a conflict), a rule of the model broken (an unhandled validation
\* error), or a payload.
Reading(srv, s) ==
    CASE srv.scopes[s] = None -> "missing"
      [] srv.scopes[s] # None /\ srv.scopes[s].dns = None -> "conflict"
      [] srv.scopes[s] # None /\ srv.scopes[s].dns # None ->
           IF Valid(Assembled(srv, s)) THEN "ok" ELSE "invalid"
=============================================================================
