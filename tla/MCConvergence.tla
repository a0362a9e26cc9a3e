---------------------------- MODULE MCConvergence ----------------------------
(***************************************************************************)
(* Valid payloads over a subnet of five addresses: four ranges, with and   *)
(* without a gateway inside or outside them, with and without boot         *)
(* options, three sets of exclusions, no failover or one of three blocks.  *)
(***************************************************************************)
EXTENDS Convergence

CONSTANTS none, s1, n1, n2

OneScope == {s1}
TwoNames == {n1, n2}

\* A widening, a narrowing, a mixed and two disjoint moves, one across a gap.
Ranges == {<<1, 2>>, <<1, 4>>, <<2, 3>>, <<4, 4>>}

Blocks ==
    {none, [name |-> n1, peer |-> "hot", tuning |-> 10],
     [name |-> n1, peer |-> "hot", tuning |-> 20],
     [name |-> n2, peer |-> "balance", tuning |-> 10]}

\* DNS and the parameters change together with the boot options, so that each
\* part of the diff is met both alone and with the others.
SomePayloads ==
    {p \in {[mask |-> 24, range |-> r, params |-> IF f = none THEN "p1" ELSE "p2",
             dns |-> IF boot THEN "d1" ELSE "d2", gateway |-> g,
             next |-> IF boot THEN "h1" ELSE none,
             file |-> IF boot THEN "f1" ELSE none,
             exclusions |-> xs, failover |-> f] :
               r \in Ranges, boot \in BOOLEAN, g \in {none, 3, 5},
               xs \in {{}, {<<3, 3>>}, {<<1, 2>>, <<3, 4>>}}, f \in Blocks} :
        /\ Valid(p)
        /\ p.failover = none => p.gateway # 5
        /\ p.exclusions = {<<1, 2>>, <<3, 4>>} => p.next # none}

SomeMasks == {24}
SomeParams == {"p1", "p2"}
SomeDns == {"d1", "d2"}
SomeHosts == {"h1"}
SomeFiles == {"f1"}
SomePeers == {"hot", "balance"}
SomeTunings == {10, 20}
=============================================================================
