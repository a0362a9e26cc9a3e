----------------------------- MODULE ValuesRules -----------------------------
(***************************************************************************)
(* What scripts/validate_dhcp_values.py makes of the values files of one   *)
(* hosted cluster: the files of the inheritance chain merged the way Helm  *)
(* merges them, and the merged dhcp_values held against a second copy of   *)
(* the API's rules (the _Ci models).  The script may not import the API,   *)
(* so nothing but care keeps the two copies in step.                       *)
(*                                                                         *)
(* A mapping of a YAML file is a function from the keys it writes.  Values *)
(* of a wrong type, which both copies refuse field by field, are left out. *)
(***************************************************************************)
EXTENDS PayloadRules

CONSTANTS
    Missing,    \* no such file
    Broken,     \* a file that is not YAML
    UpperOf,    \* cluster |-> the stem of its file in capitals
    FailoverOf  \* scope name |-> the same with -failover behind it

\* The keys whose values are mappings, if they are not null.
Mappings == {"dhcp_values", "dns", "pxe", "failover"}

Get(map, key) == IF key \in DOMAIN map THEN map[key] ELSE Null

\* `map.get(key) or {}`
GetMap(map, key) == IF Get(map, key) = Null THEN << >> ELSE map[key]

\* `map.get(key) or []`
GetList(map, key) == IF Get(map, key) = Null THEN << >> ELSE map[key]

-----------------------------------------------------------------------------
(* Types.  A key that the models do not know, which both copies refuse, is  *)
(* left out like a value of a wrong type.                                   *)

\* The texts: those the models know, and any others.
Text ==
    {"HotStandby", "LoadBalance", "Active", "Standby"}
      \cup STRING \cup TooLong \cup {Blank}

NumberKeys == {"network", "subnetMask", "startRange", "endRange", "gateway"}

PercentKeys == {"reservePercent", "loadBalancePercent", "maxClientLeadTimeMinutes"}

FailoverValues(f) ==
    /\ DOMAIN f \subseteq FailoverFields
    /\ \A key \in DOMAIN f :
          f[key] \in IF key \in PercentKeys THEN Int \cup {Null} ELSE Text \cup {Null}

\* The values of one file, or of several merged.
DhcpValues(dv) ==
    /\ \A key \in NumberKeys \cap DOMAIN dv : dv[key] \in Int \cup {Null}
    /\ "exclusions" \in DOMAIN dv => dv["exclusions"] \in Seq(Int \X Int) \cup {Null}
    /\ "scopeName" \in DOMAIN dv => dv["scopeName"] \in DOMAIN FailoverOf \cup {Null}
    /\ Get(dv, "failover") # Null => FailoverValues(dv["failover"])

\* A mapping that holds such values, if any.
ValuesFile(file) ==
    Get(file, "dhcp_values") # Null => DhcpValues(file["dhcp_values"])

ASSUME TextAssumption ==
    /\ \A fields \in SUBSET FailoverFields :
          Null \notin [fields -> Text \cup Int \cup {Null}]
    /\ \A name \in DOMAIN FailoverOf : FailoverOf[name] \in Text

-----------------------------------------------------------------------------
(* The merge of the chain *)

\* One level of _deep_merge: what `over` writes wins, lists and nulls as a
\* whole, and two mappings are merged a level deeper.
Merge(base, over, Deeper(_, _)) ==
    [key \in DOMAIN base \cup DOMAIN over |->
       CASE key \notin DOMAIN over -> base[key]
         [] key \in DOMAIN over ->
              IF key \in Mappings /\ over[key] # Null /\ Get(base, key) # Null
              THEN Deeper(base[key], over[key])
              ELSE over[key]]

\* No mapping lies deeper than in dhcp_values.
LeafMerge(base, over) ==
    [key \in DOMAIN base \cup DOMAIN over |->
       IF key \in DOMAIN over THEN over[key] ELSE base[key]]

DhcpMerge(base, over) == Merge(base, over, LeafMerge)

_deep_merge(base, over) == Merge(base, over, DhcpMerge)

\* merge_yaml_files: a file that is missing or cannot be read adds nothing.
Loaded(file) == IF file \in {Missing, Broken} THEN << >> ELSE file

merge_yaml_files(global, site, mce, cluster) ==
    _deep_merge(_deep_merge(_deep_merge(Loaded(global), Loaded(site)),
                            Loaded(mce)), Loaded(cluster))

-----------------------------------------------------------------------------
(* The arguments of the _Ci models *)

ciServers(dv) ==
    GetList(GetMap(dv, "dns"), "servers") \o GetList(GetMap(dv, "dns"), "extraServers")

\* A name nobody wrote is the file's own, in capitals.
ciScopeName(cluster, dv) ==
    IF Get(dv, "scopeName") = Null THEN UpperOf[cluster] ELSE dv["scopeName"]

ciFailover(cluster, dv) ==
    LET f == Get(dv, "failover")
    IN  IF f # Null /\ Get(f, "relationshipName") = Null
        THEN LeafMerge(f, [relationshipName |-> FailoverOf[ciScopeName(cluster, dv)]])
        ELSE f

\* Only what was written counts as a value of these two.
Written(dv, key) == IF key \in DOMAIN dv THEN dv[key] ELSE Absent

kwargs(cluster, dv) ==
    [scopeName |-> ciScopeName(cluster, dv),
     network |-> Get(dv, "network"),
     subnetMask |-> Written(dv, "subnetMask"),
     startRange |-> Get(dv, "startRange"),
     endRange |-> Get(dv, "endRange"),
     leaseDurationDays |-> Get(dv, "leaseDurationDays"),
     gateway |-> Written(dv, "gateway"),
     dnsServers |-> ciServers(dv),
     nextServer |-> Get(GetMap(dv, "pxe"), "server"),
     bootFile |-> Get(GetMap(dv, "pxe"), "bootfile"),
     exclusions |-> GetList(dv, "exclusions"),
     failover |-> ciFailover(cluster, dv)]

-----------------------------------------------------------------------------
(* The _Ci models *)

\* A failover mapping may leave keys out: these have a default, or none.
ciFilled(f) ==
    LeafMerge([serverRole |-> Null, reservePercent |-> 0,
               loadBalancePercent |-> Null], f)

\* (Wrong on purpose, like every Wrong_...)
Wrong_role_always_required(f) ==
    /\ DOMAIN ciFilled(f) = FailoverFields
    /\ f.partnerServer \notin {Null, Blank}
    /\ f.relationshipName \notin {Null, Blank} \cup TooLong
    /\ f.mode \in {"HotStandby", "LoadBalance"}
    /\ ciFilled(f).serverRole # Null
    /\ ciFilled(f).reservePercent \in 0 .. 100
    /\ ciFilled(f).loadBalancePercent \in 0 .. 100 \cup {Null}
    /\ f.maxClientLeadTimeMinutes \in 1 .. 1440
    /\ f.mode = "HotStandby" \/ ciFilled(f).loadBalancePercent # Null

_CiFailover(f) ==
    /\ DOMAIN ciFilled(f) = FailoverFields
    /\ f.partnerServer \notin {Null, Blank}
    /\ f.relationshipName \notin {Null, Blank} \cup TooLong
    /\ f.mode \in {"HotStandby", "LoadBalance"}
    /\ ciFilled(f).serverRole \in {"Active", "Standby", Null}
    /\ ciFilled(f).reservePercent \in 0 .. 100
    /\ ciFilled(f).loadBalancePercent \in 0 .. 100 \cup {Null}
    /\ f.maxClientLeadTimeMinutes \in 1 .. 1440
    /\ \/ f.mode = "HotStandby" /\ ciFilled(f).serverRole # Null
       \/ f.mode = "LoadBalance" /\ ciFilled(f).loadBalancePercent # Null

ciNormalizedFailover(f) ==
    IF f.mode = "HotStandby"
    THEN [ciFilled(f) EXCEPT !.loadBalancePercent = 0]
    ELSE [ciFilled(f) EXCEPT !.serverRole = "Active", !.reservePercent = 0]

_CiExclusions(xs) ==
    /\ \A i \in DOMAIN xs : xs[i][1] <= xs[i][2]
    /\ \A i, j \in DOMAIN xs : i # j =>
          xs[i] # xs[j] /\ (xs[i][2] < xs[j][1] \/ xs[j][2] < xs[i][1])

\* What the default mask lets the values files leave out.
ciMask(k) == IF k.subnetMask \in {Absent, Null} THEN BlockSize ELSE k.subnetMask

ciGateway(k) ==
    IF k.gateway # Absent THEN k.gateway
    ELSE (k.network \div BlockSize) * BlockSize + BlockSize - 2

Wrong_ciRange(k) ==
    LET block == (k.network \div BlockSize) * BlockSize
    IN  <<IF k.startRange = Null THEN block + 1 ELSE k.startRange,
          IF k.endRange = Null THEN block + BlockSize - 4 ELSE k.endRange>>

ciRange(k) ==
    LET block == (k.network \div BlockSize) * BlockSize
    IN  <<IF k.startRange = Null THEN block + 1 ELSE k.startRange,
          IF k.endRange = Null THEN block + BlockSize - 3 ELSE k.endRange>>

_CiSubnet(k) ==
    LET last == k.network + ciMask(k) - 1
        usable == k.network + 1 .. last - 1
    IN  /\ ciMask(k) \in Sizes
        /\ k.network % ciMask(k) = 0
        /\ ciRange(k)[1] \in usable /\ ciRange(k)[2] \in usable
        /\ ciGateway(k) # Null => ciGateway(k) \in usable
        /\ \A i \in DOMAIN k.exclusions :
              k.exclusions[i][1] \in k.network .. last
                /\ k.exclusions[i][2] \in k.network .. last

_CiGateway(k) ==
    ciGateway(k) # Null =>
        \/ ciGateway(k) < ciRange(k)[1] \/ ciRange(k)[2] < ciGateway(k)
        \/ \E i \in DOMAIN k.exclusions :
              k.exclusions[i][1] <= ciGateway(k) /\ ciGateway(k) <= k.exclusions[i][2]

_CiScopePayload(k) ==
    /\ k.network # Null
    /\ k.scopeName \notin {Null, Blank}
    /\ k.leaseDurationDays \in 1 .. 3650
    /\ k.dnsServers # << >>
    /\ k.nextServer # Blank /\ k.bootFile # Blank
    /\ (k.nextServer = Null) = (k.bootFile = Null)
    /\ _CiExclusions(k.exclusions)
    /\ k.failover # Null => _CiFailover(k.failover)
    /\ k.gateway = Absent => ciMask(k) = BlockSize
    /\ (k.startRange = Null) = (k.endRange = Null)
    /\ k.startRange = Null => ciMask(k) = BlockSize
    /\ k.startRange # Null => k.startRange <= k.endRange
    /\ _CiSubnet(k)
    /\ _CiGateway(k)

\* What the models hold once they have passed.
ciPayload(k) ==
    [scope |-> k.network, scopeName |-> k.scopeName, subnetMask |-> ciMask(k),
     range |-> ciRange(k), leaseDurationDays |-> k.leaseDurationDays,
     gateway |-> ciGateway(k), dnsServers |-> k.dnsServers,
     nextServer |-> k.nextServer, bootFile |-> k.bootFile,
     exclusions |-> {k.exclusions[i] : i \in DOMAIN k.exclusions},
     failover |-> IF k.failover = Null THEN Null
                  ELSE ciNormalizedFailover(k.failover)]

-----------------------------------------------------------------------------
(* _validate_dhcp_content *)

ascending(xs) == \A i, j \in DOMAIN xs : i < j => xs[i][1] <= xs[j][1]

\* A cluster opts in by its own file.
Managed(file) == file \notin {Missing, Broken} /\ "dhcp_values" \in DOMAIN file

required_paths(dv) ==
    /\ Get(dv, "network") # Null
    /\ Get(dv, "leaseDurationDays") # Null
    /\ Get(GetMap(dv, "dns"), "servers") # Null

_validate_dhcp_content(cluster, file, merged) ==
    Managed(file) =>
        LET dv == Get(merged, "dhcp_values")
        IN  /\ dv # Null
            /\ required_paths(dv)
            /\ _CiScopePayload(kwargs(cluster, dv))
            /\ ascending(kwargs(cluster, dv).exclusions)

-----------------------------------------------------------------------------
(* The request Argo CD and Crossplane make of the same values.  The chart   *)
(* fills in the names as the script does and joins the DNS servers.  The    *)
(* failover it renders as it was written; what has a default by the mask it *)
(* resolves by the rule the API applies, and here it is the API's that is.  *)

Rendered(cluster, dv) ==
    LET k == kwargs(cluster, dv)
    IN  [field \in DOMAIN k \ {"network"} |-> k[field]]
=============================================================================
