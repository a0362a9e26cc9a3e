---------------------------- MODULE MCScopeReads ----------------------------
(***************************************************************************)
(* Two scopes in one failover relationship, or not, and two writes of      *)
(* them while a script reads.  The payloads differ in every part that is   *)
(* read by a cmdlet of its own.  A POST creates or converges, so that PUT  *)
(* adds nothing.                                                           *)
(***************************************************************************)
EXTENDS ScopeReads, TLC

CONSTANTS r1, r2, s1, s2, n1, none

Plain ==
    [mask |-> 24, range |-> <<1, 4>>, params |-> "p1", dns |-> "d1",
     gateway |-> none, next |-> none, file |-> none, exclusions |-> {},
     failover |-> none]

Full ==
    [Plain EXCEPT !.params = "p2", !.gateway = 4,
                  !.exclusions = {<<3, 3>>, <<4, 4>>},
                  !.failover = [name |-> n1, peer |-> "hot", tuning |-> 10]]

Fewer == [Full EXCEPT !.exclusions = {<<4, 4>>}]

TwoScopes == {s1, s2}
OneName == {n1}
TwoRequests == {r1, r2}
SomePayloads == {Plain, Full, Fewer}
Writes == {"POST", "DELETE"}
NoFaults == {}

OneMask == {24}
SomeParams == {"p1", "p2"}
OneDns == {"d1"}
OneHost == {"h1"}
OneFile == {"f1"}
OnePeer == {"hot"}
OneTuning == {10}

Symmetric == Permutations(Requests)
=============================================================================
