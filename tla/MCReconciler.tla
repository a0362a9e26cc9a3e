---------------------------- MODULE MCReconciler ----------------------------
(***************************************************************************)
(* Two resources over one failover relationship: one joins it while the    *)
(* other leaves it, is deleted, or joins it too.  The first may have two   *)
(* requests in hand.                                                       *)
(***************************************************************************)
EXTENDS Reconciler

CONSTANTS x1, x2, r1, r2, r3, s1, s2, n1, none

\* A scope in failover with one peer or another, or in none.
Scoped(peer) ==
    [mask |-> 24, range |-> <<1, 2>>, params |-> "p1", dns |-> "d1",
     gateway |-> none, next |-> none, file |-> none, exclusions |-> {},
     failover |-> IF peer = none THEN none
                  ELSE [name |-> n1, peer |-> peer, tuning |-> 10]]

SomePayloads == {Scoped(none), Scoped("hot"), Scoped("balance")}

Start(is1, wanted1, is2, wanted2) ==
    [x \in {x1, x2} |-> IF x = x1 THEN [is |-> is1, wanted |-> wanted1]
                        ELSE [is |-> is2, wanted |-> wanted2]]

SharedStarts ==
    {Start(Scoped("hot"), Scoped(none), Scoped(none), Scoped("hot")),
     Start(Scoped("hot"), none, Scoped(none), Scoped("hot")),
     Start(Scoped(none), Scoped("hot"), Scoped(none), Scoped("hot"))}

\* Both resources are given the same new mode.
ModeStarts ==
    {Start(Scoped("hot"), Scoped("balance"), Scoped("hot"), Scoped("balance"))}

TwoResources == {x1, x2}
TwoScopes == {s1, s2}
Manages == [x \in TwoResources |-> IF x = x1 THEN s1 ELSE s2]
ThreeRequests == {r1, r2, r3}
Sends == [x \in TwoResources |-> IF x = x1 THEN {r1, r2} ELSE {r3}]
TwoRequests == {r1, r3}
SendsOne == [x \in TwoResources |-> IF x = x1 THEN {r1} ELSE {r3}]
OneName == {n1}
AllVerbs == {"GET", "POST", "PUT", "DELETE"}
SomeFaults == {"failed", "late", "crash"}
NoFaults == {}

OneMask == {24}
OneParams == {"p1"}
OneDns == {"d1"}
OneHost == {"h1"}
OneFile == {"f1"}
SomePeers == {"hot", "balance"}
OneTuning == {10}
=============================================================================
