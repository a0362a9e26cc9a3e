---------------------------- MODULE PayloadRules ----------------------------
(***************************************************************************)
(* What the API makes of the body of a POST or PUT: the pydantic models of *)
(* app/models and the request dependency of app/dependencies/scopes.py.    *)
(* The body is validated on its own, then once more together with the      *)
(* scope address of the path, where what the client left out is derived.   *)
(*                                                                         *)
(* An address is a number and a subnet mask the size of the subnet it      *)
(* makes, so the default mask is BlockSize (256 in the code), and the      *)
(* addresses .1, .253 and .254 are 1, BlockSize - 3 and BlockSize - 2      *)
(* above the base of a block.  Texts are opaque but for being empty,       *)
(* blank, or too long.  description and dnsDomain, which no rule relates   *)
(* to anything, are left out.                                              *)
(***************************************************************************)
EXTENDS Integers, Sequences

CONSTANTS
    BlockSize,  \* the subnet of the default mask
    Sizes,      \* the subnets of the contiguous masks
    TooLong,    \* the texts longer than 64 characters
    Blank,      \* a text of white space, or with white space in it
    Absent,     \* a key that was not written
    Null        \* null, or the empty text

ASSUME PayloadAssumption ==
    /\ BlockSize \in Nat /\ BlockSize >= 4
    /\ BlockSize \in Sizes
    /\ Sizes \subseteq Nat \ {0}
    /\ Null \notin Int /\ Absent \notin Int
    /\ Null # Absent

-----------------------------------------------------------------------------
(* The body by itself *)

Values(xs) == {xs[i] : i \in DOMAIN xs}

end_gte_start(x) == x[1] <= x[2]

no_duplicate_exclusions(xs) ==
    \A i, j \in DOMAIN xs : i # j => xs[i] # xs[j]

no_overlapping_exclusions(xs) ==
    \A i, j \in DOMAIN xs : i # j => xs[i][2] < xs[j][1] \/ xs[j][2] < xs[i][1]

end_range_gte_start_range(b) ==
    b.startRange # Null /\ b.endRange # Null => b.startRange <= b.endRange

pxe_options_set_together(b) == (b.nextServer = Null) <=> (b.bootFile = Null)

\* (Wrong on purpose: the variants named Wrong_... are slips the properties
\* refute.)
Wrong_balance_kept(f) ==
    IF f.mode = "HotStandby"
    THEN f
    ELSE [f EXCEPT !.serverRole = "Active", !.reservePercent = 0]

\* What the mode has no use for is put to a fixed value, not refused.
enforce_mode_fields(f) ==
    IF f.mode = "HotStandby"
    THEN [f EXCEPT !.loadBalancePercent = 0]
    ELSE [f EXCEPT !.serverRole = "Active", !.reservePercent = 0]

FailoverFields ==
    {"partnerServer", "relationshipName", "mode", "serverRole",
     "reservePercent", "loadBalancePercent", "maxClientLeadTimeMinutes"}

\* The fields a body may leave out of it, and what they are then.
FailoverDefaults ==
    [serverRole |-> Null, reservePercent |-> 0, loadBalancePercent |-> Null]

filled(f) ==
    [field \in DOMAIN FailoverDefaults \cup DOMAIN f |->
       IF field \in DOMAIN f THEN f[field] ELSE FailoverDefaults[field]]

DhcpFailover(f) ==
    /\ DOMAIN filled(f) = FailoverFields
    /\ f.partnerServer \notin {Null, Blank}
    /\ f.relationshipName \notin {Null, Blank} \cup TooLong
    /\ f.mode \in {"HotStandby", "LoadBalance"}
    /\ filled(f).serverRole \in {"Active", "Standby", Null}
    /\ filled(f).reservePercent \in 0 .. 100
    /\ filled(f).loadBalancePercent \in 0 .. 100 \cup {Null}
    /\ f.maxClientLeadTimeMinutes \in 1 .. 1440
    /\ f.mode = "HotStandby" => filled(f).serverRole # Null
    /\ f.mode = "LoadBalance" => filled(f).loadBalancePercent # Null

DhcpScopeBody(b) ==
    /\ b.scopeName \notin {Null, Blank}
    /\ b.leaseDurationDays \in 1 .. 3650
    /\ b.dnsServers # << >>
    /\ b.nextServer # Blank /\ b.bootFile # Blank
    /\ pxe_options_set_together(b)
    /\ \A x \in Values(b.exclusions) : end_gte_start(x)
    /\ no_duplicate_exclusions(b.exclusions)
    /\ no_overlapping_exclusions(b.exclusions)
    /\ end_range_gte_start_range(b)
    /\ b.failover # Null => DhcpFailover(b.failover)

-----------------------------------------------------------------------------
(* The body together with the address of the path *)

normalize_subnet_mask(mask) == IF mask \in {Absent, Null} THEN BlockSize ELSE mask

\* int(scope) & ~0xFF
BlockBase(scope) == (scope \div BlockSize) * BlockSize

\* A gateway that was left out is derived; null is none, and stays none.
resolve_default_gateway(scope, b) ==
    IF b.gateway # Absent THEN b.gateway ELSE BlockBase(scope) + BlockSize - 2

resolve_default_range(scope, b) ==
    IF b.startRange # Null THEN <<b.startRange, b.endRange>>
    ELSE <<BlockBase(scope) + 1, BlockBase(scope) + BlockSize - 3>>

\* Nothing is derived but for the default mask, and a range not by halves.
Derivable(b) ==
    /\ b.gateway = Absent => normalize_subnet_mask(b.subnetMask) = BlockSize
    /\ b.startRange = Null <=> b.endRange = Null
    /\ b.startRange = Null => normalize_subnet_mask(b.subnetMask) = BlockSize

\* The payload a body becomes.  Sorted and free of duplicates, its exclusions
\* are a set.
DhcpScopePayload(scope, b) ==
    [scope |-> scope, scopeName |-> b.scopeName,
     subnetMask |-> normalize_subnet_mask(b.subnetMask),
     range |-> resolve_default_range(scope, b),
     leaseDurationDays |-> b.leaseDurationDays,
     gateway |-> resolve_default_gateway(scope, b),
     dnsServers |-> b.dnsServers,
     nextServer |-> b.nextServer, bootFile |-> b.bootFile,
     exclusions |-> Values(b.exclusions),
     failover |-> IF b.failover = Null THEN Null
                 ELSE enforce_mode_fields(filled(b.failover))]

Covers(x, address) == x[1] <= address /\ address <= x[2]

\* Within the subnet, and neither the network's nor the broadcast address.
Usable(p, address) ==
    p.scope < address /\ address < p.scope + p.subnetMask - 1

validate_subnet_consistency(p) ==
    /\ p.subnetMask \in Sizes
    /\ p.scope % p.subnetMask = 0
    /\ Usable(p, p.range[1]) /\ Usable(p, p.range[2])
    /\ p.gateway # Null => Usable(p, p.gateway)
    /\ \A x \in p.exclusions :
          p.scope <= x[1] /\ x[2] <= p.scope + p.subnetMask - 1

gateway_not_in_distribution_range(p) ==
    p.gateway # Null /\ Covers(p.range, p.gateway)
        => \E x \in p.exclusions : Covers(x, p.gateway)

\* validate_scope_request: the body is turned into a payload, or answered 422.
Accepts(scope, b) ==
    /\ DhcpScopeBody(b)
    /\ Derivable(b)
    /\ validate_subnet_consistency(DhcpScopePayload(scope, b))
    /\ gateway_not_in_distribution_range(DhcpScopePayload(scope, b))

-----------------------------------------------------------------------------
(* The wire shape of a payload: what GET answers and a client may PUT back. *)

body(p, listed) ==
    [scopeName |-> p.scopeName, subnetMask |-> p.subnetMask,
     startRange |-> p.range[1], endRange |-> p.range[2],
     leaseDurationDays |-> p.leaseDurationDays, gateway |-> p.gateway,
     dnsServers |-> p.dnsServers, nextServer |-> p.nextServer,
     bootFile |-> p.bootFile, exclusions |-> listed, failover |-> p.failover]
=============================================================================
