------------------------------ MODULE MCScopes ------------------------------
(***************************************************************************)
(* One scope, and clients that ask for six different states of it.  The    *)
(* moves between them cover every branch of the diff: a mixed move, a      *)
(* widening, a narrowing and a disjoint move of the range; a gateway set   *)
(* and cleared; boot options set, changed and cleared; exclusions added    *)
(* and removed; failover set up, removed, recreated and retuned; a         *)
(* different mask.                                                         *)
(***************************************************************************)
EXTENDS ScopeProperties, TLC

CONSTANTS r1, r2, s1, n1, none

Plain ==
    [mask |-> 24, range |-> <<1, 3>>, params |-> "p1", dns |-> "d1",
     gateway |-> 6, next |-> none, file |-> none, exclusions |-> {},
     failover |-> none]

\* From Plain: a mixed range move that takes in the gateway, an exclusion over
\* it, boot options, failover.
Full ==
    [mask |-> 24, range |-> <<2, 6>>, params |-> "p2", dns |-> "d1",
     gateway |-> 6, next |-> "h1", file |-> "f1",
     exclusions |-> {<<3, 3>>, <<6, 6>>},
     failover |-> [name |-> n1, peer |-> "hot", tuning |-> 10]]

\* Disjoint from Plain; no gateway; another peer in the same relationship.
Moved ==
    [mask |-> 24, range |-> <<5, 6>>, params |-> "p1", dns |-> "d2",
     gateway |-> none, next |-> "h1", file |-> "f2",
     exclusions |-> {<<6, 6>>},
     failover |-> [name |-> n1, peer |-> "balance", tuning |-> 10]]

\* Moved, renamed, and with another percentage for the relationship it is in.
Retuned == [Moved EXCEPT !.params = "p2", !.failover.tuning = 20]

\* Moved, renamed only: a change that failover has no part in.
Renamed == [Moved EXCEPT !.params = "p2"]

Remasked == [Plain EXCEPT !.mask = 25]

OneScope == {s1}
OneName == {n1}
TwoRequests == {r1, r2}

AllPayloads == {Plain, Full, Moved, Retuned, Renamed, Remasked}
TwoPayloads == {Plain, Full}
PartnerPayloads == {Moved, Retuned}

AllVerbs == {"GET", "POST", "PUT", "DELETE"}
OnlyPost == {"POST"}
OnlyDelete == {"DELETE"}

PromptFaults == {"failed", "timeout", "broken", "rerun", "crash"}
OnlyFailed == {"failed"}

SomeMasks == {24, 25}
SomeParams == {"p1", "p2"}
SomeDns == {"d1", "d2"}
SomeHosts == {"h1"}
SomeFiles == {"f1", "f2"}
SomePeers == {"hot", "balance"}
SomeTunings == {10, 20}

Symmetric == Permutations(Requests)
=============================================================================
