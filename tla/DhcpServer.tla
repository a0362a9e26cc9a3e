----------------------------- MODULE DhcpServer -----------------------------
(***************************************************************************)
(* The Windows DHCP server as this service relies on it: the scopes it     *)
(* holds, the failover relationships they belong to, and what each         *)
(* DhcpServer cmdlet answers and changes.  None of it is code of the       *)
(* repository; it is modelled from the cmdlets app/services/               *)
(* scope_service.py issues and from what its comments record of the        *)
(* server's behaviour (range writes, option removal, error categories).    *)
(*                                                                         *)
(* Addresses are host numbers inside the scope's subnet.  Name, lease and  *)
(* description always travel in one cmdlet and are one value (params); DNS *)
(* servers and domain likewise (dns).                                      *)
(***************************************************************************)
EXTENDS Naturals, FiniteSets

CONSTANTS
    Scopes,       \* scope identifiers (network addresses)
    Names,        \* failover relationship names
    Masks,        \* subnet masks
    Params,       \* (scope name, lease duration, description)
    Dns,          \* (DNS servers, DNS domain): options 6 and 15
    BootHosts,    \* values of option 66
    BootFiles,    \* values of option 67
    Peers,        \* (partner server, mode, server role) of a relationship
    Tunings,      \* (reserve or load-balance percent, max client lead time)
    LastAddress,  \* the highest host number
    None          \* an absent scope, option or relationship

Address == 1 .. LastAddress
Range == {r \in Address \X Address : r[1] <= r[2]}

-----------------------------------------------------------------------------
(* Types *)

ScopeConfig ==
    [mask : Masks, range : Range, params : Params,
     dns : Dns \cup {None}, gateway : Address \cup {None},
     next : BootHosts \cup {None}, file : BootFiles \cup {None},
     exclusions : SUBSET Range]

Relationship == [peer : Peers, tuning : Tunings, members : SUBSET Scopes]

\* What a request body says of failover: the relationship and its settings.
Failover == [name : Names, peer : Peers, tuning : Tunings]

\* synced: the scopes whose copy on the failover partner is up to date.
Server ==
    [scopes : [Scopes -> ScopeConfig \cup {None}],
     rels   : [Names -> Relationship \cup {None}],
     synced : SUBSET Scopes]

ASSUME AbsentIsNoValue ==
    /\ LastAddress \in Nat \ {0}
    /\ None \notin Nat
    /\ None \notin Dns \cup BootHosts \cup BootFiles
    /\ None \notin ScopeConfig
    /\ None \notin Relationship
    /\ None \notin Failover

\* Why a cmdlet failed, as far as the service can tell the reasons apart.
\* "refused" is the range rejection, reported under the same error number as
\* an exclusion that is already present; "failed" is any other error record.
CmdletErrors == {"notFound", "alreadyExists", "refused", "failed"}

-----------------------------------------------------------------------------
(* Reading *)

Exists(srv, s) == srv.scopes[s] # None

\* The relationships a scope is a member of (at most one on a real server).
RelationshipsOf(srv, s) ==
    {n \in Names : srv.rels[n] # None /\ s \in srv.rels[n].members}

Inside(inner, outer) == outer[1] <= inner[1] /\ inner[2] <= outer[2]

-----------------------------------------------------------------------------
(* Cmdlets: each answers an outcome and the server's next state. *)

Answers(outcome, srv) == [outcome |-> outcome, server |-> srv]

\* A write to a scope's own configuration; the partner's copy now lags.
Configure(srv, s, config) ==
    Answers("ok", [srv EXCEPT !.scopes[s] = config, !.synced = @ \ {s}])

Fresh(a) ==
    [mask |-> a.mask, range |-> a.range, params |-> a.params,
     dns |-> None, gateway |-> None, next |-> None, file |-> None,
     exclusions |-> {}]

\* Set-DhcpServerv4Scope takes a range only when it contains, or is contained
\* in, the one the scope already has.
SetRange(srv, s, r) ==
    LET held == srv.scopes[s].range
    IN  IF Inside(r, held) \/ Inside(held, r)
        THEN Configure(srv, s, [srv.scopes[s] EXCEPT !.range = r])
        ELSE Answers("refused", srv)

\* One combined Set-DhcpServerv4OptionValue: DNS always, -Router when given.
SetOptions(srv, s, a) ==
    Configure(srv, s,
        [srv.scopes[s] EXCEPT
            !.dns = a.dns,
            !.gateway = IF a.gateway = None THEN @ ELSE a.gateway])

RemoveRouter(srv, s) ==
    IF srv.scopes[s].gateway = None
    THEN Answers("notFound", srv)
    ELSE Configure(srv, s, [srv.scopes[s] EXCEPT !.gateway = None])

RemoveBootHost(srv, s) ==
    IF srv.scopes[s].next = None
    THEN Answers("notFound", srv)
    ELSE Configure(srv, s, [srv.scopes[s] EXCEPT !.next = None])

RemoveBootFile(srv, s) ==
    IF srv.scopes[s].file = None
    THEN Answers("notFound", srv)
    ELSE Configure(srv, s, [srv.scopes[s] EXCEPT !.file = None])

AddExclusion(srv, s, x) ==
    IF x \in srv.scopes[s].exclusions
    THEN Answers("alreadyExists", srv)
    ELSE Configure(srv, s, [srv.scopes[s] EXCEPT !.exclusions = @ \cup {x}])

RemoveExclusion(srv, s, x) ==
    IF x \notin srv.scopes[s].exclusions
    THEN Answers("notFound", srv)
    ELSE Configure(srv, s, [srv.scopes[s] EXCEPT !.exclusions = @ \ {x}])

\* Removing a scope does not by itself tidy the relationship it belongs to:
\* that is what the delete path detaches it for.
RemoveScope(srv, s) ==
    Answers("ok", [srv EXCEPT !.scopes[s] = None, !.synced = @ \ {s}])

\* A new relationship, or a new member of one, copies the scope to the partner.
CreateRelationship(srv, s, f) ==
    CASE srv.rels[f.name] # None      -> Answers("alreadyExists", srv)
      [] RelationshipsOf(srv, s) # {} -> Answers("failed", srv)
      [] OTHER ->
           Answers("ok",
               [srv EXCEPT
                   !.rels[f.name] = [peer |-> f.peer, tuning |-> f.tuning,
                                     members |-> {s}],
                   !.synced = @ \cup {s}])

AddToRelationship(srv, s, n) ==
    CASE srv.rels[n] = None           -> Answers("notFound", srv)
      [] s \in srv.rels[n].members    -> Answers("alreadyExists", srv)
      [] RelationshipsOf(srv, s) # {} -> Answers("failed", srv)
      [] OTHER ->
           Answers("ok", [srv EXCEPT !.rels[n].members = @ \cup {s},
                                     !.synced = @ \cup {s}])

RemoveFromRelationship(srv, s, n) ==
    IF srv.rels[n] = None \/ s \notin srv.rels[n].members
    THEN Answers("notFound", srv)
    ELSE Answers("ok", [srv EXCEPT !.rels[n].members = @ \ {s},
                                   !.synced = @ \ {s}])

\* With -Force: the relationship goes, whatever it still holds.
RemoveRelationship(srv, n) ==
    IF srv.rels[n] = None
    THEN Answers("notFound", srv)
    ELSE Answers("ok", [srv EXCEPT !.rels[n] = None,
                                   !.synced = @ \ srv.rels[n].members])

TuneRelationship(srv, f) ==
    IF srv.rels[f.name] = None
    THEN Answers("notFound", srv)
    ELSE Answers("ok", [srv EXCEPT !.rels[f.name].tuning = f.tuning])

Replicate(srv, s) ==
    IF RelationshipsOf(srv, s) = {}
    THEN Answers("notFound", srv)
    ELSE Answers("ok", [srv EXCEPT !.synced = @ \cup {s}])

-----------------------------------------------------------------------------
(* Command lines, as the service hands them to PowerShell. *)

Cmdlet ==
       [op : {"AddScope"}, arg : [mask : Masks, range : Range, params : Params]]
  \cup [op : {"SetRange", "AddExclusion", "RemoveExclusion"}, arg : Range]
  \cup [op : {"SetParams"}, arg : Params]
  \cup [op : {"SetOptions"},
        arg : [dns : Dns, gateway : Address \cup {None}]]
  \cup [op : {"SetBootHost"}, arg : BootHosts]
  \cup [op : {"SetBootFile"}, arg : BootFiles]
  \cup [op : {"RemoveRouter", "RemoveBootHost", "RemoveBootFile",
              "RemoveScope", "Replicate"}, arg : {None}]
  \cup [op : {"CreateRelationship", "TuneRelationship"}, arg : Failover]
  \cup [op : {"AddToRelationship", "RemoveFromRelationship",
              "RemoveRelationship"}, arg : Names]

RelationshipOps == {"RemoveFromRelationship", "RemoveRelationship",
                    "TuneRelationship"}

\* Cmdlets that need the scope to exist.
RunOnScope(srv, s, c) ==
    CASE c.op = "SetRange" -> SetRange(srv, s, c.arg)
      [] c.op = "SetParams" ->
           Configure(srv, s, [srv.scopes[s] EXCEPT !.params = c.arg])
      [] c.op = "SetOptions" -> SetOptions(srv, s, c.arg)
      [] c.op = "SetBootHost" ->
           Configure(srv, s, [srv.scopes[s] EXCEPT !.next = c.arg])
      [] c.op = "SetBootFile" ->
           Configure(srv, s, [srv.scopes[s] EXCEPT !.file = c.arg])
      [] c.op = "RemoveRouter" -> RemoveRouter(srv, s)
      [] c.op = "RemoveBootHost" -> RemoveBootHost(srv, s)
      [] c.op = "RemoveBootFile" -> RemoveBootFile(srv, s)
      [] c.op = "AddExclusion" -> AddExclusion(srv, s, c.arg)
      [] c.op = "RemoveExclusion" -> RemoveExclusion(srv, s, c.arg)
      [] c.op = "RemoveScope" -> RemoveScope(srv, s)
      [] c.op = "CreateRelationship" -> CreateRelationship(srv, s, c.arg)
      [] c.op = "AddToRelationship" -> AddToRelationship(srv, s, c.arg)
      [] c.op = "Replicate" -> Replicate(srv, s)

RunOnRelationship(srv, s, c) ==
    CASE c.op = "RemoveFromRelationship" ->
           RemoveFromRelationship(srv, s, c.arg)
      [] c.op = "RemoveRelationship" -> RemoveRelationship(srv, c.arg)
      [] c.op = "TuneRelationship" -> TuneRelationship(srv, c.arg)

\* The answer of the server `srv` to the cmdlet `c` on the scope `s`.
Run(srv, s, c) ==
    CASE c.op \in RelationshipOps -> RunOnRelationship(srv, s, c)
      [] c.op = "AddScope" ->
           IF Exists(srv, s) THEN Answers("alreadyExists", srv)
                             ELSE Configure(srv, s, Fresh(c.arg))
      [] c.op \notin RelationshipOps \cup {"AddScope"} ->
           IF Exists(srv, s) THEN RunOnScope(srv, s, c)
                             ELSE Answers("notFound", srv)
=============================================================================
