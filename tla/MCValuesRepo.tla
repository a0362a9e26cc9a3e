----------------------------- MODULE MCValuesRepo -----------------------------
(***************************************************************************)
(* Two sites of one MCE each, with two clusters at most.  The file of one  *)
(* cluster is written in every combination of address fields, and in many  *)
(* of the others; the files it inherits from, in a few.  A /24 has eight    *)
(* addresses here: the derived gateway of 8 is 14, and the range 9 to 13.  *)
(***************************************************************************)
EXTENDS ValuesRepo

CONSTANTS missing, broken, absent, null, blank, none

TwoSites == {"s1", "s2"}
OneMce == {"m1"}
TwoClusters == {"c1", "c2"}
SomeSizes == {4, 8, 16}
LongTexts == {"much too long"}
Uppers == [c \in TwoClusters |-> IF c = "c1" THEN "C1" ELSE "C2"]
FailoverNames ==
    [n \in {"C1", "C2", "long", blank} |->
       IF n = "long" THEN "much too long"
       ELSE IF n = blank THEN "blank-failover" ELSE n \o "-failover"]

\* A mapping without the keys whose value is absent.
Map(f) == [key \in {k \in DOMAIN f : f[k] # absent} |-> f[key]]

Dhcp(f) == [dhcp_values |-> Map(f)]

Hot == [partnerServer |-> "dhcp02", mode |-> "HotStandby", serverRole |-> "Active",
        reservePercent |-> 5, maxClientLeadTimeMinutes |-> 60]
Balance == [partnerServer |-> "dhcp02", mode |-> "LoadBalance",
            loadBalancePercent |-> 50, maxClientLeadTimeMinutes |-> 1440]

Plain == [network |-> 8, exclusions |-> <<<<9, 9>>>>]

Addresses ==
    {Dhcp([network |-> n, subnetMask |-> k, gateway |-> g, startRange |-> r[1],
           endRange |-> r[2], exclusions |-> xs]) :
       n \in {8, 10}, k \in {absent, null, 4, 7},
       g \in {absent, null, 10, 15},
       r \in {<<absent, absent>>, <<10, 12>>, <<9, 14>>, <<12, 10>>,
              <<10, null>>, <<null, 12>>},
       xs \in {absent, <<<<10, 10>>>>, <<<<9, 9>>, <<14, 14>>>>,
               <<<<12, 13>>, <<9, 9>>>>, <<<<9, 10>>, <<10, 11>>>>}}

Failovers ==
    {absent, null, Hot, Balance, [serverRole |-> "Standby"], [mode |-> "LoadBalance"],
     [x \in DOMAIN Hot \ {"serverRole"} |-> Hot[x]],
     [Hot EXCEPT !.mode = "LoadBalance"], [Balance EXCEPT !.mode = "HotStandby"],
     [x \in DOMAIN Hot \cup {"loadBalancePercent"} |->
        IF x \in DOMAIN Hot THEN Hot[x] ELSE 50],
     [x \in DOMAIN Hot \cup {"relationshipName"} |->
        IF x \in DOMAIN Hot THEN Hot[x] ELSE blank]}

Others ==
    {Dhcp([network |-> 16, scopeName |-> s, leaseDurationDays |-> l, failover |-> f]) :
       s \in {absent, "long", blank}, l \in {absent, null, 1}, f \in Failovers}
      \cup
    {Dhcp([network |-> 16, leaseDurationDays |-> l, pxe |-> x, dns |-> d]) :
       l \in {absent, null, 1},
       x \in {absent, [server |-> "h1"], [server |-> "h1", bootfile |-> "f1"],
              [bootfile |-> blank]},
       d \in {absent, [servers |-> << >>], [extraServers |-> <<"d2">>]}}

Globals ==
    {Dhcp([leaseDurationDays |-> 8, dns |-> [servers |-> <<"d1">>]]),
     Dhcp([leaseDurationDays |-> 8, dns |-> [servers |-> null]])}

\* What a site or an MCE adds for the clusters below it.
Shared ==
    {[x \in {} |-> null], Dhcp([dns |-> [extraServers |-> <<"d2">>]]),
     Dhcp([pxe |-> [server |-> "h2"]]), Dhcp([failover |-> Hot]),
     Dhcp([subnetMask |-> 4, gateway |-> 9])}

Unmanaged == [other |-> null]

EveryText ==
    [p \in Paths |->
       CASE p = Config -> Globals \cup {missing, broken}
         [] Len(p) \in {3, 5} -> Shared \cup {missing, broken}
         [] p = ClusterFile("s1", "m1", "c1") ->
              Addresses \cup Others \cup {missing, broken, [x \in {} |-> null]}
         [] OTHER -> {Dhcp(Plain), Unmanaged, missing}]

FewTexts ==
    [p \in Paths |-> IF Len(p) = 6 THEN {Dhcp(Plain), missing} ELSE {missing}]

\* Both sites hold a cluster that manages its scope; or the second holds none.
SomeTrees ==
    {[p \in Paths |->
        CASE p = Config -> CHOOSE g \in Globals : g.dhcp_values.dns.servers # null
          [] p \in {SiteValues("s1"), MceValues("s1", "m1")} -> [x \in {} |-> null]
          [] p \in {SiteValues("s2"), MceValues("s2", "m1")} ->
               IF both THEN Dhcp([failover |-> Hot]) ELSE missing
          [] p = ClusterFile("s2", "m1", "c1") ->
               IF both THEN Dhcp(Plain) ELSE missing
          [] p = ClusterFile("s1", "m1", "c1") -> Dhcp(Plain)
          [] p = ClusterFile("s1", "m1", "c2") -> IF both THEN Unmanaged ELSE missing
          [] OTHER -> missing] : both \in BOOLEAN}
=============================================================================
