-------------------------- MODULE ScopeWritesProofs --------------------------
(***************************************************************************)
(* What the writes of the request handlers do on their way.                *)
(*                                                                         *)
(* Whatever fails, no step of a plan undoes what is already as it was      *)
(* asked for (Minds); ScopeClientsProofs builds on that.                   *)
(*                                                                         *)
(* And as long as nothing fails, nothing stops a write: for any number of  *)
(* scopes, if no two of them share a relationship, every POST, PUT and     *)
(* DELETE succeeds, a 200 carries the state that was asked for, failover   *)
(* included, and is not given before the partner has it.                   *)
(*                                                                         *)
(* That is not inductive.  What is (FInv) says of every write that its     *)
(* steps fit the server, one after the other (WriteFits, DeleteFits): no   *)
(* exclusion is added twice, each range is one Windows takes after the one *)
(* before it, the relationship to create is not there, the one to leave is *)
(* the scope's.  And it says of every scope that nobody writes that it can *)
(* be read and its partner has it (Rested), so that the next plan, made    *)
(* from what is read, fits again.                                          *)
(***************************************************************************)
EXTENDS ScopePropertiesProofs

-----------------------------------------------------------------------------
(* Writes that undo nothing *)

Joins == {"SetupFailover", "CreateRelationship", "AddToRelationship"}

Leaves == {"RemoveFromRelationship", "CleanupRelationship", "RemoveRelationship"}

\* The relationship that is joined or tuned is the one asked for,
JoinsAsAsked(steps, desired) ==
    \A step \in Ahead(steps) :
        /\ step.do.op \in {"SetupFailover", "CreateRelationship", "TuneRelationship"} =>
             desired.failover # None /\ step.do.arg = desired.failover
        /\ Does(step, "AddToRelationship") =>
             desired.failover # None /\ step.do.arg = desired.failover.name

\* and only once another one has been left.
LeavesFirst(steps) ==
    \A i, j \in 1 .. Len(steps) :
        i < j /\ steps[i].do.op \in Joins => steps[j].do.op \notin Leaves

\* The scope is in the relationship asked for, with the partner asked for.
JoinedAsAsked(srv, s, n, desired) ==
    /\ desired.failover # None
    /\ n = desired.failover.name
    /\ Lists(srv, n, s)
    /\ srv.rels[n].peer = desired.failover.peer

\* Nobody leaves that one.
LeavesOthers(srv, s, steps, desired) ==
    \A step \in Ahead(steps) :
        step.do.op \in Leaves => ~JoinedAsAsked(srv, s, step.do.arg, desired)

\* The range asked for is not widened.
WidensNoMore(held, steps, desired) ==
    steps # << >> /\ Does(Head(steps), "SetRange") /\ held.range = desired.range =>
        Head(steps).do.arg = desired.range

\* No step ahead undoes what is already as it was asked for.
Minds(srv, s, steps, desired) ==
    /\ JoinsAsAsked(steps, desired)
    /\ LeavesFirst(steps)
    /\ LeavesOthers(srv, s, steps, desired)
    /\ WidensNoMore(srv.scopes[s], steps, desired)

WritesMind ==
    \A r \in Requests : pc[r] \in {"create", "converge"} =>
        Minds(server, scope(r), todo[r], request[r].desired)

\* Only a DELETE comes to delete.
DeletesByVerb == \A r \in Requests : pc[r] = "delete" => verb(r) = "DELETE"

KInv == PInv /\ WritesMind /\ DeletesByVerb

-----------------------------------------------------------------------------
(* Relationships under a cmdlet *)

\* A relationship that stays keeps its partner.
LEMMA RunPeers ==
    ASSUME NEW srv \in Server, NEW s \in Scopes, NEW c \in Cmdlet, NEW n \in Names,
           NEW new, new = Run(srv, s, c).server,
           srv.rels[n] # None, new.rels[n] # None
    PROVE  new.rels[n].peer = srv.rels[n].peer
  <1>0. srv.rels \in [Names -> Relationship \cup {None}]
    BY DEF Server
  <1>1. CASE new.rels = srv.rels
    BY <1>1
  <1>2. CASE c.op \in ConfigOps \cup {"AddScope", "RemoveScope"}
    BY <1>2, RunLeavesRelationships
  <1>3. CASE c.op = "CreateRelationship"
    <2>1. c.arg \in Failover /\ c.arg.name \in Names
      BY <1>3, ConfigArgs DEF Failover
    <2>2. \/ new.rels = srv.rels
          \/ /\ srv.rels[c.arg.name] = None
             /\ new.rels = [srv.rels EXCEPT ![c.arg.name] =
                              [peer |-> c.arg.peer, tuning |-> c.arg.tuning,
                               members |-> {s}]]
      BY <1>3 DEF Run, RunOnScope, RelationshipOps, CreateRelationship, Answers
    <2>3. QED
      BY <1>0, <2>1, <2>2
  <1>4. CASE c.op = "AddToRelationship"
    <2>1. \/ new.rels = srv.rels
          \/ new.rels = [srv.rels EXCEPT ![c.arg].members = @ \cup {s}]
      BY <1>4 DEF Run, RunOnScope, RelationshipOps, AddToRelationship, Answers
    <2>2. QED
      BY <1>0, <2>1 DEF Relationship
  <1>5. CASE c.op = "RemoveFromRelationship"
    <2>1. \/ new.rels = srv.rels
          \/ new.rels = [srv.rels EXCEPT ![c.arg].members = @ \ {s}]
      BY <1>5 DEF Run, RunOnRelationship, RelationshipOps, RemoveFromRelationship, Answers
    <2>2. QED
      BY <1>0, <2>1 DEF Relationship
  <1>6. CASE c.op = "RemoveRelationship"
    <2>1. \/ new.rels = srv.rels
          \/ new.rels = [srv.rels EXCEPT ![c.arg] = None]
      BY <1>6 DEF Run, RunOnRelationship, RelationshipOps, RemoveRelationship, Answers
    <2>2. QED
      BY <1>0, <2>1
  <1>7. CASE c.op = "TuneRelationship"
    <2>1. \/ new.rels = srv.rels
          \/ new.rels = [srv.rels EXCEPT ![c.arg.name].tuning = c.arg.tuning]
      BY <1>7 DEF Run, RunOnRelationship, RelationshipOps, TuneRelationship, Answers
    <2>2. QED
      BY <1>0, <2>1 DEF Relationship
  <1>8. CASE c.op = "Replicate"
    BY <1>8 DEF Run, RunOnScope, RelationshipOps, Replicate, Answers
  <1>9. QED
    BY <1>2, <1>3, <1>4, <1>5, <1>6, <1>7, <1>8, ConfigArgs DEF RelationshipOps

\* No scope comes to be in a relationship as asked for but by joining it.
LEMMA RunJoins ==
    ASSUME NEW srv \in Server, NEW s \in Scopes, NEW c \in Cmdlet, NEW n \in Names,
           NEW t \in Scopes, NEW desired,
           JoinedAsAsked(Run(srv, s, c).server, t, n, desired)
    PROVE  \/ JoinedAsAsked(srv, t, n, desired)
           \/ t = s /\ c.op \in {"CreateRelationship", "AddToRelationship"}
  <1> DEFINE new == Run(srv, s, c).server
  <1>1. CASE ~Lists(srv, n, t)
    BY <1>1, RunLists DEF JoinedAsAsked
  <1>2. CASE Lists(srv, n, t)
    <2>1. srv.rels[n] # None /\ new.rels[n] # None
      BY <1>2 DEF JoinedAsAsked, Lists
    <2>2. new.rels[n].peer = srv.rels[n].peer
      BY <2>1, RunPeers
    <2>3. QED
      BY <1>2, <2>2 DEF JoinedAsAsked
  <1>3. QED
    BY <1>1, <1>2

\* Nor by a script, however it ends.
LEMMA TookJoins ==
    ASSUME NEW srv \in Server, NEW s \in Scopes, NEW c \in Cmdlet, NEW new,
           NEW outcome, Took(srv, s, c, new, outcome),
           NEW n \in Names, NEW t \in Scopes, NEW desired,
           JoinedAsAsked(new, t, n, desired)
    PROVE  \/ JoinedAsAsked(srv, t, n, desired)
           \/ t = s /\ c.op \in {"CreateRelationship", "AddToRelationship"}
  <1> DEFINE once == Run(srv, s, c).server
  <1>1. once \in Server
    BY RunType
  <1>2. \/ new = srv
        \/ new = once
        \/ new = Run(once, s, c).server
    BY DEF Took, Twice
  <1> HIDE DEF once
  <1>3. JoinedAsAsked(once, t, n, desired) =>
          \/ JoinedAsAsked(srv, t, n, desired)
          \/ t = s /\ c.op \in {"CreateRelationship", "AddToRelationship"}
    BY RunJoins DEF once
  <1>4. JoinedAsAsked(Run(once, s, c).server, t, n, desired) =>
          \/ JoinedAsAsked(once, t, n, desired)
          \/ t = s /\ c.op \in {"CreateRelationship", "AddToRelationship"}
    BY <1>1, RunJoins
  <1>5. QED
    BY <1>2, <1>3, <1>4

-----------------------------------------------------------------------------
(* What a step leaves of a plan that minds *)

\* `rest` is left of `steps` when its first step, or a part of it, is done.
Successor(steps, rest) ==
    \/ rest = Tail(steps)
    \/ /\ rest # << >> /\ Tail(rest) = Tail(steps)
       /\ \/ /\ Head(steps).do.op \in BatchOps
             /\ Head(rest).do.op = Head(steps).do.op
          \/ /\ Head(steps).do.op = "SetupFailover"
             /\ \/ Head(rest).do = [op |-> "CreateRelationship", arg |-> Head(steps).do.arg]
                \/ Head(rest).do = [op |-> "AddToRelationship",
                                    arg |-> Head(steps).do.arg.name]
          \/ /\ Head(steps).do.op = "CleanupRelationship"
             /\ Head(rest).do = [op |-> "RemoveRelationship", arg |-> Head(steps).do.arg]

\* Scripts and lookups leave successors.
LEMMA AdvanceSuccessor ==
    ASSUME NEW steps, NEW rest, NEW c, Advance(steps, c, rest)
    PROVE  Successor(steps, rest)
  <1>1. CASE Head(steps).do.op \in BatchOps
    BY <1>1, AdvanceKinds DEF Successor
  <1>2. CASE Head(steps).do.op \notin BatchOps
    BY <1>2 DEF Advance, Successor
  <1>3. QED
    BY <1>1, <1>2

\* What of a plan does not depend on the server stays so.
LEMMA SuccessorMinds ==
    ASSUME NEW steps \in Seq(Step), NEW rest \in Seq(Step), steps # << >>,
           Successor(steps, rest), NEW desired,
           JoinsAsAsked(steps, desired), LeavesFirst(steps)
    PROVE  /\ JoinsAsAsked(rest, desired) /\ LeavesFirst(rest)
           /\ Head(steps).do.op \in Joins =>
                \A step \in Ahead(rest) : step.do.op \notin Leaves
           /\ \A step \in Ahead(rest) : step.do.op \in Leaves =>
                \E before \in Ahead(steps) :
                    before.do.op \in Leaves /\ before.do.arg = step.do.arg
  <1>1. /\ Len(steps) \in Nat \ {0} /\ Head(steps) = steps[1]
        /\ Len(Tail(steps)) = Len(steps) - 1
        /\ \A i \in 1 .. Len(steps) - 1 : Tail(steps)[i] = steps[i + 1]
    OBVIOUS
  <1>2. Ahead(steps) = {Head(steps)} \cup Ahead(Tail(steps))
    BY AheadHead
  <1>3. rest # << >> => Ahead(rest) = {Head(rest)} \cup Ahead(Tail(rest))
    BY AheadHead
  <1>4. Head(steps).do.op \in Joins =>
          \A step \in Ahead(Tail(steps)) : step.do.op \notin Leaves
    <2>1. SUFFICES ASSUME Head(steps).do.op \in Joins, NEW i \in 1 .. Len(Tail(steps))
                   PROVE  Tail(steps)[i].do.op \notin Leaves
      BY DEF Ahead
    <2>2. i + 1 \in 1 .. Len(steps) /\ 1 \in 1 .. Len(steps) /\ 1 < i + 1
          /\ Tail(steps)[i] = steps[i + 1]
      BY <1>1
    <2>3. QED
      BY <1>1, <2>1, <2>2 DEF LeavesFirst
  <1>5. LeavesFirst(Tail(steps))
    <2>1. SUFFICES ASSUME NEW i \in 1 .. Len(Tail(steps)), NEW j \in 1 .. Len(Tail(steps)),
                          i < j, Tail(steps)[i].do.op \in Joins
                   PROVE  Tail(steps)[j].do.op \notin Leaves
      BY DEF LeavesFirst
    <2>2. /\ i + 1 \in 1 .. Len(steps) /\ j + 1 \in 1 .. Len(steps) /\ i + 1 < j + 1
          /\ Tail(steps)[i] = steps[i + 1] /\ Tail(steps)[j] = steps[j + 1]
      BY <1>1, <2>1
    <2>3. QED
      BY <2>1, <2>2 DEF LeavesFirst
  <1>6. CASE rest = Tail(steps)
    BY <1>2, <1>4, <1>5, <1>6 DEF JoinsAsAsked
  <1>7. CASE rest # Tail(steps)
    <2>1. /\ rest # << >> /\ Tail(rest) = Tail(steps)
          /\ \/ Head(steps).do.op \in BatchOps /\ Head(rest).do.op \in BatchOps
             \/ /\ Head(steps).do.op = "SetupFailover"
                /\ \/ Head(rest).do = [op |-> "CreateRelationship",
                                       arg |-> Head(steps).do.arg]
                   \/ Head(rest).do = [op |-> "AddToRelationship",
                                       arg |-> Head(steps).do.arg.name]
             \/ /\ Head(steps).do.op = "CleanupRelationship"
                /\ Head(rest).do = [op |-> "RemoveRelationship",
                                    arg |-> Head(steps).do.arg]
      BY <1>7 DEF Successor
    <2>2. /\ Head(rest).do.op \in Joins => Head(steps).do.op \in Joins
          /\ Head(rest).do.op \in Leaves =>
               /\ Head(steps).do.op \in Leaves
               /\ Head(rest).do.arg = Head(steps).do.arg
          /\ Head(steps).do.op \in Joins => Head(rest).do.op \notin Leaves
      <3>1. CASE Head(rest).do.op \in BatchOps /\ Head(steps).do.op \in BatchOps
        BY <3>1 DEF BatchOps, Joins, Leaves
      <3>2. CASE /\ Head(steps).do.op = "SetupFailover"
                 /\ Head(rest).do.op \in {"CreateRelationship", "AddToRelationship"}
        BY <3>2 DEF Joins, Leaves
      <3>3. CASE /\ Head(steps).do.op = "CleanupRelationship"
                 /\ Head(rest).do = [op |-> "RemoveRelationship", arg |-> Head(steps).do.arg]
        BY <3>3 DEF Joins, Leaves
      <3>4. QED
        BY <2>1, <3>1, <3>2, <3>3
    <2>3. JoinsAsAsked(rest, desired)
      <3>1. \A step \in Ahead(Tail(rest)) :
               /\ step.do.op \in {"SetupFailover", "CreateRelationship",
                                  "TuneRelationship"} =>
                    desired.failover # None /\ step.do.arg = desired.failover
               /\ Does(step, "AddToRelationship") =>
                    desired.failover # None /\ step.do.arg = desired.failover.name
        BY <1>2, <2>1 DEF JoinsAsAsked
      <3>2. /\ Head(rest).do.op \in {"SetupFailover", "CreateRelationship",
                                     "TuneRelationship"} =>
                 desired.failover # None /\ Head(rest).do.arg = desired.failover
            /\ Does(Head(rest), "AddToRelationship") =>
                 desired.failover # None /\ Head(rest).do.arg = desired.failover.name
        <4>1. Head(steps).do.op = "SetupFailover" =>
                 desired.failover # None /\ Head(steps).do.arg = desired.failover
          BY <1>2 DEF JoinsAsAsked
        <4>2. QED
          BY <2>1, <4>1 DEF BatchOps, Does
      <3>3. QED
        BY <1>3, <2>1, <3>1, <3>2 DEF JoinsAsAsked
    <2>4. LeavesFirst(rest)
      <3>1. /\ Len(rest) \in Nat \ {0} /\ Head(rest) = rest[1]
            /\ Len(rest) = Len(steps)
            /\ \A i \in 1 .. Len(rest) : i # 1 => rest[i] = steps[i]
        <4>1. /\ Len(rest) \in Nat \ {0} /\ Head(rest) = rest[1]
              /\ Len(Tail(rest)) = Len(rest) - 1
              /\ \A i \in 1 .. Len(rest) - 1 : Tail(rest)[i] = rest[i + 1]
          BY <2>1
        <4>2. Len(rest) = Len(steps)
          <5>1. Len(rest) - 1 = Len(steps) - 1
            BY <1>1, <2>1, <4>1
          <5>2. Len(rest) \in Nat /\ Len(steps) \in Nat
            OBVIOUS
          <5>3. QED
            BY <5>1, <5>2
        <4>3. ASSUME NEW i \in 1 .. Len(rest), i # 1 PROVE rest[i] = steps[i]
          <5>1. i - 1 \in 1 .. Len(rest) - 1 /\ (i - 1) + 1 = i
            BY <4>1, <4>3
          <5>2. Tail(rest)[i - 1] = rest[i] /\ Tail(steps)[i - 1] = steps[i]
            BY <1>1, <4>1, <4>2, <5>1
          <5>3. QED
            BY <2>1, <5>2
        <4>4. QED
          BY <4>1, <4>2, <4>3
      <3>2. SUFFICES ASSUME NEW i \in 1 .. Len(rest), NEW j \in 1 .. Len(rest),
                            i < j, rest[i].do.op \in Joins
                     PROVE  rest[j].do.op \notin Leaves
        BY DEF LeavesFirst
      <3>3. i \in 1 .. Len(steps) /\ j \in 1 .. Len(steps) /\ rest[j] = steps[j]
        BY <3>1, <3>2
      <3>4. steps[i].do.op \in Joins
        BY <1>1, <2>2, <3>1, <3>2
      <3>5. QED
        BY <3>2, <3>3, <3>4 DEF LeavesFirst
    <2>5. QED
      BY <1>2, <1>3, <1>4, <2>1, <2>2, <2>3, <2>4
  <1>8. QED
    BY <1>6, <1>7

-----------------------------------------------------------------------------
(* Plans that mind *)

\* Where nothing is joined, or nothing left, nothing is left too late.
LEMMA LeavesFirstAlone ==
    ASSUME NEW steps,
           \/ \A step \in Ahead(steps) : step.do.op \notin Joins
           \/ \A step \in Ahead(steps) : step.do.op \notin Leaves
    PROVE  LeavesFirst(steps)
  BY DEF LeavesFirst, Ahead

\* In a row of two parts, leaving comes first unless the first part joins and
\* the second leaves.
LEMMA LeavesFirstConcat ==
    ASSUME NEW s \in Seq(Step), NEW t \in Seq(Step), LeavesFirst(s), LeavesFirst(t),
           \/ \A step \in Ahead(s) : step.do.op \notin Joins
           \/ \A step \in Ahead(t) : step.do.op \notin Leaves
    PROVE  LeavesFirst(s \o t)
  <1>1. /\ Len(s) \in Nat /\ Len(t) \in Nat /\ Len(s \o t) = Len(s) + Len(t)
        /\ \A i \in 1 .. Len(s) : (s \o t)[i] = s[i]
        /\ \A i \in 1 .. Len(t) : (s \o t)[Len(s) + i] = t[i]
    OBVIOUS
  <1>2. ASSUME NEW i \in 1 .. Len(s \o t), i \notin 1 .. Len(s)
        PROVE  i - Len(s) \in 1 .. Len(t) /\ (s \o t)[i] = t[i - Len(s)]
    <2>1. i - Len(s) \in 1 .. Len(t) /\ Len(s) + (i - Len(s)) = i
      BY <1>1, <1>2
    <2>2. QED
      BY <1>1, <2>1
  <1>3. SUFFICES ASSUME NEW i \in 1 .. Len(s \o t), NEW j \in 1 .. Len(s \o t),
                        i < j, (s \o t)[i].do.op \in Joins
                 PROVE  (s \o t)[j].do.op \notin Leaves
    BY DEF LeavesFirst
  <1>4. CASE j \in 1 .. Len(s)
    <2>1. i \in 1 .. Len(s)
      BY <1>1, <1>3, <1>4
    <2>2. QED
      BY <1>1, <1>3, <1>4, <2>1 DEF LeavesFirst
  <1>5. CASE i \notin 1 .. Len(s)
    <2>1. j \notin 1 .. Len(s)
      BY <1>1, <1>3, <1>5
    <2>2. i - Len(s) \in 1 .. Len(t) /\ (s \o t)[i] = t[i - Len(s)]
      BY <1>2, <1>5
    <2>3. j - Len(s) \in 1 .. Len(t) /\ (s \o t)[j] = t[j - Len(s)]
      BY <1>2, <2>1
    <2>4. i - Len(s) < j - Len(s)
      BY <1>1, <1>3
    <2>5. QED
      BY <1>3, <2>2, <2>3, <2>4 DEF LeavesFirst
  <1>6. CASE i \in 1 .. Len(s) /\ j \notin 1 .. Len(s)
    <2>1. s[i].do.op \in Joins /\ s[i] \in Ahead(s)
      BY <1>1, <1>3, <1>6 DEF Ahead
    <2>2. (s \o t)[j] \in Ahead(t)
      BY <1>2, <1>6 DEF Ahead
    <2>3. QED
      BY <2>1, <2>2
  <1>7. QED
    BY <1>4, <1>5, <1>6

\* The failover part of a plan, by the failovers it goes from and to.
LEMMA FailoverPartMinds ==
    ASSUME NEW current \in Payload, NEW desired \in Payload, Valid(desired),
           NEW part, part = _handle_failover_diff(current.failover, desired.failover)
    PROVE  /\ part \in Seq(Step)
           /\ JoinsAsAsked(part, desired) /\ LeavesFirst(part)
           /\ \A step \in Ahead(part) : step.do.op \in Leaves =>
                /\ current.failover # None
                /\ step.do.arg = current.failover.name
                /\ \/ desired.failover = None
                   \/ current.failover.name # desired.failover.name
                   \/ current.failover.peer # desired.failover.peer
  <1> DEFINE have == current.failover
             want == desired.failover
             set == Call("SetupFailover", want)
             leave == Call("RemoveFromRelationship", have.name)
             look == Call("CleanupRelationship", have.name)
             tune == Call("TuneRelationship", want)
             leaving == _remove_scope_from_failover(have.name)
             Moves == \/ want = None
                      \/ have.name # want.name
                      \/ have.peer # want.peer
  <1>1. /\ set.do.op = "SetupFailover" /\ set.do.arg = want
        /\ leave.do.op = "RemoveFromRelationship" /\ leave.do.arg = have.name
        /\ look.do.op = "CleanupRelationship" /\ look.do.arg = have.name
        /\ tune.do.op = "TuneRelationship" /\ tune.do.arg = want
    BY DEF Call
  <1>2. have \in Failover \cup {None} /\ want \in Failover \cup {None}
    BY DEF Payload
  <1>3. part \in Seq(Step)
    BY PartsType
  <1>4. \/ part = << >>
        \/ part = <<set>> /\ want # None
        \/ part = leaving /\ have # None /\ Moves
        \/ part = leaving \o <<set>> /\ have # None /\ want # None /\ Moves
        \/ part = <<tune>> /\ want # None
    BY DEF _handle_failover_diff, _setup_failover, When
  <1>5. have # None => leaving \in Seq(Step) /\ Ahead(leaving) = {leave, look}
    BY <1>2, FailoverType, LeavingLooks DEF Failover
  <1>6. want # None => <<set>> \in Seq(Step)
    BY <1>2, FailoverType DEF _setup_failover
  <1> HIDE DEF set, leave, look, tune, leaving, Moves
  <1>7. Ahead(<<set>>) = {set} /\ Ahead(<<tune>>) = {tune} /\ Ahead(<< >>) = {}
    BY AheadOne, AheadEmpty
  <1>8. /\ LeavesFirst(<<set>>) /\ LeavesFirst(<<tune>>) /\ LeavesFirst(<< >>)
        /\ have # None => LeavesFirst(leaving)
    BY <1>1, <1>5, <1>7, LeavesFirstAlone DEF Joins, Leaves
  <1>9. have # None /\ want # None =>
          /\ Ahead(leaving \o <<set>>) = {leave, look, set}
          /\ LeavesFirst(leaving \o <<set>>)
    <2>1. SUFFICES ASSUME have # None, want # None
                   PROVE  /\ Ahead(leaving \o <<set>>) = {leave, look, set}
                          /\ LeavesFirst(leaving \o <<set>>)
      OBVIOUS
    <2>2. Ahead(leaving \o <<set>>) = {leave, look} \cup {set}
      BY <1>5, <1>6, <1>7, <2>1, AheadSteps
    <2>3. \A step \in Ahead(leaving) : step.do.op \notin Joins
      BY <1>1, <1>5, <2>1 DEF Joins
    <2>4. LeavesFirst(leaving \o <<set>>)
      BY <1>5, <1>6, <1>8, <2>1, <2>3, LeavesFirstConcat
    <2>5. QED
      BY <2>2, <2>4
  <1>10. LeavesFirst(part)
    BY <1>4, <1>8, <1>9
  <1>11. /\ Ahead(part) \subseteq {set, leave, look, tune}
         /\ set \in Ahead(part) \/ tune \in Ahead(part) => want # None
         /\ leave \in Ahead(part) \/ look \in Ahead(part) => have # None /\ Moves
    <2>1. set # leave /\ set # look /\ set # tune /\ tune # leave /\ tune # look
      BY <1>1
    <2>2. QED
      BY <1>4, <1>5, <1>7, <1>9, <2>1
  <1>12. JoinsAsAsked(part, desired)
    BY <1>1, <1>11 DEF JoinsAsAsked, Does
  <1>13. ASSUME NEW step \in Ahead(part), step.do.op \in Leaves
         PROVE  have # None /\ step.do.arg = have.name /\ Moves
    <2>1. step \in {leave, look}
      BY <1>1, <1>11, <1>13 DEF Leaves
    <2>2. QED
      BY <1>1, <1>11, <2>1
  <1>14. QED
    BY <1>3, <1>10, <1>12, <1>13 DEF Moves

\* A plan of _converge_scope minds.
LEMMA ConvergeMinds ==
    ASSUME NEW current \in Payload, NEW desired \in Payload, Valid(desired),
           NEW plan, plan = converge_plan(current, desired)
    PROVE  /\ JoinsAsAsked(plan, desired) /\ LeavesFirst(plan)
           /\ \A step \in Ahead(plan) : step.do.op \in Leaves =>
                /\ current.failover # None
                /\ step.do.arg = current.failover.name
                /\ \/ desired.failover = None
                   \/ current.failover.name # desired.failover.name
                   \/ current.failover.peer # desired.failover.peer
           /\ WidensNoMore(current, plan, desired)
  <1> DEFINE R == RangePart(current, desired)
             P == ParamsPart(current, desired)
             O == options_commands(current, desired)
             B == boot_commands(current, desired)
             E == exclusion_commands(current, desired)
             F == _handle_failover_diff(current.failover, desired.failover)
             copy == Call("Replicate", None)
             X == When(changes(current, desired) # << >> /\ desired.failover # None,
                       _replicate_failover)
             C == R \o P \o O \o B \o E
             Simple == {"SetRange", "SetParams", "SetOptions", "RemoveRouter",
                       "SetBootHost", "SetBootFile", "RemoveBootHost", "RemoveBootFile",
                       "AddExclusions", "RemoveExclusions", "Replicate"}
  <1>1. /\ R \in Seq(Step) /\ P \in Seq(Step) /\ O \in Seq(Step) /\ B \in Seq(Step)
        /\ E \in Seq(Step) /\ F \in Seq(Step) /\ X \in Seq(Step)
    BY PartsType, FailoverType, WhenType DEF RangePart, ParamsPart
  <1>2. plan = C \o F \o X
    BY DEF converge_plan, changes, RangePart, ParamsPart
  <1>3. /\ \A step \in Ahead(R) : step.do.op = "SetRange"
        /\ \A step \in Ahead(P) : step.do.op = "SetParams"
    BY RangePartLeads, ParamsPartLeads DEF Does
  <1>4. /\ \A step \in Ahead(O) : step.do.op \in {"SetOptions", "RemoveRouter"}
        /\ \A step \in Ahead(B) :
             step.do.op \in {"SetBootHost", "SetBootFile",
                             "RemoveBootHost", "RemoveBootFile"}
        /\ \A step \in Ahead(E) :
             step.do.op \in {"AddExclusions", "RemoveExclusions"}
    BY OptionsPartLeads, BootPartLeads, ExclusionPartLeads
  <1>5. /\ JoinsAsAsked(F, desired) /\ LeavesFirst(F)
        /\ \A step \in Ahead(F) : step.do.op \in Leaves =>
             /\ current.failover # None
             /\ step.do.arg = current.failover.name
             /\ \/ desired.failover = None
                \/ current.failover.name # desired.failover.name
                \/ current.failover.peer # desired.failover.peer
    BY FailoverPartMinds
  <1>6. \A step \in Ahead(X) : step.do.op = "Replicate"
    <2>1. copy.do.op = "Replicate" /\ _replicate_failover = <<copy>>
      BY DEF Call, _replicate_failover
    <2> HIDE DEF copy
    <2>2. Ahead(X) \subseteq {copy}
      BY <2>1, AheadWhen, AheadOne
    <2>3. QED
      BY <2>1, <2>2
  <1>7. current.range = desired.range => Ahead(R) = {}
    <2> DEFINE ranges == _range_transition_steps(current.range, desired.range)
    <2>1. SUFFICES ASSUME current.range = desired.range PROVE R = << >>
      BY AheadEmpty
    <2>2. ranges = << >>
      BY <2>1 DEF _range_transition_steps, When
    <2>3. R = [i \in 1 .. Len(ranges) |-> Call("SetRange", ranges[i])]
      BY DEF RangePart, range_commands
    <2> HIDE DEF ranges, R
    <2>4. QED
      BY <2>2, <2>3
  <1> HIDE DEF R, P, O, B, E, F, X
  <1>8. /\ C \in Seq(Step)
        /\ Ahead(C) = Ahead(R) \cup Ahead(P) \cup Ahead(O) \cup Ahead(B) \cup Ahead(E)
    <2>1. R \o P \in Seq(Step) /\ Ahead(R \o P) = Ahead(R) \cup Ahead(P)
      BY <1>1, AheadSteps
    <2>2. R \o P \o O \in Seq(Step) /\ Ahead(R \o P \o O) = Ahead(R \o P) \cup Ahead(O)
      BY <1>1, <2>1, AheadSteps
    <2>3. /\ R \o P \o O \o B \in Seq(Step)
          /\ Ahead(R \o P \o O \o B) = Ahead(R \o P \o O) \cup Ahead(B)
      BY <1>1, <2>2, AheadSteps
    <2>4. C \in Seq(Step) /\ Ahead(C) = Ahead(R \o P \o O \o B) \cup Ahead(E)
      BY <1>1, <2>3, AheadSteps
    <2>5. QED
      BY <2>1, <2>2, <2>3, <2>4
  <1> HIDE DEF C
  <1>9. C \o F \in Seq(Step) /\ Ahead(C \o F) = Ahead(C) \cup Ahead(F)
    BY <1>1, <1>8, AheadSteps
  <1>10. plan \in Seq(Step) /\ Ahead(plan) = Ahead(C) \cup Ahead(F) \cup Ahead(X)
    <2>1. C \o F \o X \in Seq(Step) /\ Ahead(C \o F \o X) = Ahead(C \o F) \cup Ahead(X)
      BY <1>1, <1>9, AheadSteps
    <2>2. QED
      BY <1>2, <1>9, <2>1
  <1>11. \A step \in Ahead(C) \cup Ahead(X) : step.do.op \in Simple
    BY <1>3, <1>4, <1>6, <1>8
  <1>12. \A step \in Ahead(C) \cup Ahead(X) :
           /\ step.do.op \notin Joins \cup Leaves
           /\ step.do.op \notin {"SetupFailover", "CreateRelationship",
                                 "TuneRelationship", "AddToRelationship"}
    BY <1>11 DEF Joins, Leaves
  <1>13. JoinsAsAsked(plan, desired)
    BY <1>5, <1>10, <1>12 DEF JoinsAsAsked, Does
  <1>14. LeavesFirst(plan)
    <2>1. LeavesFirst(C) /\ LeavesFirst(X)
      BY <1>12, LeavesFirstAlone
    <2>2. LeavesFirst(C \o F)
      BY <1>1, <1>5, <1>8, <1>12, <2>1, LeavesFirstConcat
    <2>3. QED
      BY <1>1, <1>2, <1>9, <1>12, <2>1, <2>2, LeavesFirstConcat
  <1>15. WidensNoMore(current, plan, desired)
    <2>1. SUFFICES ASSUME plan # << >>, Does(Head(plan), "SetRange"),
                          current.range = desired.range
                   PROVE  FALSE
      BY DEF WidensNoMore
    <2>2. Head(plan) \in Ahead(plan)
      BY <1>10, <2>1, AheadHead
    <2>3. \A step \in Ahead(F) : step.do.op # "SetRange"
      BY <1>1, FailoverPartLeads DEF F, Payload
    <2>4. QED
      BY <1>3, <1>4, <1>6, <1>7, <1>8, <1>10, <2>1, <2>2, <2>3 DEF Does
  <1>16. QED
    BY <1>5, <1>10, <1>12, <1>13, <1>14, <1>15

\* And so does a plan of create_scope, which leaves nothing.
LEMMA CreateMinds ==
    ASSUME NEW p \in Payload, Valid(p), NEW plan, plan = create_plan(p)
    PROVE  /\ JoinsAsAsked(plan, p) /\ LeavesFirst(plan)
           /\ \A step \in Ahead(plan) : step.do.op \notin Leaves
           /\ \A held : WidensNoMore(held, plan, p)
  <1> DEFINE added == [mask |-> p.mask, range |-> p.range, params |-> p.params]
             add == Tolerant("AddScope", added, {"alreadyExists"})
             set == _set_options_command(p)
             host == Call("SetBootHost", p.next)
             file == Call("SetBootFile", p.file)
             exclude == Tolerant("AddExclusions", p.exclusions, {"alreadyExists"})
             join == Call("SetupFailover", p.failover)
             copy == Call("Replicate", None)
             S == <<add, set>>
             B == _set_boot_options_commands(p)
             E == When(p.exclusions # {}, <<exclude>>)
             F == When(p.failover # None, _setup_failover(p.failover) \o _replicate_failover)
  <1>1. plan = S \o B \o E \o F
    BY DEF create_plan
  <1>2. /\ add.do.op = "AddScope" /\ set.do.op = "SetOptions"
        /\ host.do.op = "SetBootHost" /\ file.do.op = "SetBootFile"
        /\ exclude.do.op = "AddExclusions"
        /\ join.do.op = "SetupFailover" /\ join.do.arg = p.failover
        /\ copy.do.op = "Replicate"
    BY DEF Call, Tolerant, _set_options_command
  <1>3. Writing(None, plan, p) /\ plan \in Seq(Step)
    BY CreateLeads, PlanTypes
  <1>4. add \in Step /\ set \in Step
    <2>1. [op |-> "AddScope", arg |-> added] \in Cmdlet
      BY DEF Payload, Cmdlet
    <2>2. [op |-> "SetOptions", arg |-> [dns |-> p.dns, gateway |-> p.gateway]] \in Cmdlet
      BY DEF Payload, Cmdlet
    <2>3. QED
      BY <2>1, <2>2, CallType, TolerantType, ToleratedKinds DEF _set_options_command
  <1>5. B \in Seq(Step) /\ Ahead(B) \subseteq {host, file}
    <2>1. B = When(p.next # None, <<host, file>>)
      BY DEF _set_boot_options_commands
    <2>2. B \in Seq(Step)
      BY OptionsType
    <2> HIDE DEF host, file, B
    <2>3. Ahead(When(p.next # None, <<host, file>>)) \subseteq Ahead(<<host, file>>)
      BY AheadWhen
    <2>4. QED
      BY <2>1, <2>2, <2>3, AheadTwo
  <1>6. E \in Seq(Step) /\ Ahead(E) \subseteq {exclude}
    <2>1. <<exclude>> \in Seq(Step)
      BY ExclusionsType, ToleratedKinds DEF Payload
    <2> HIDE DEF exclude
    <2>2. QED
      BY <2>1, WhenType, AheadWhen, AheadOne
  <1>7. F \in Seq(Step) /\ Ahead(F) = IF p.failover # None THEN {join, copy} ELSE {}
    <2>1. CASE p.failover = None
      BY <2>1, AheadEmpty DEF When
    <2>2. CASE p.failover # None
      <3>1. <<join>> \in Seq(Step) /\ <<copy>> \in Seq(Step)
        BY <2>2, FailoverType DEF Payload, _setup_failover, _replicate_failover
      <3>2. F = <<join>> \o <<copy>>
        BY <2>2 DEF When, _setup_failover, _replicate_failover
      <3> HIDE DEF join, copy, F
      <3>3. Ahead(F) = {join} \cup {copy} /\ F \in Seq(Step)
        BY <3>1, <3>2, AheadSteps, AheadOne
      <3>4. QED
        BY <2>2, <3>3
    <2>3. QED
      BY <2>1, <2>2
  <1> HIDE DEF add, set, host, file, exclude, join, copy, B, E, F
  <1>8. S \in Seq(Step) /\ Ahead(S) = {add, set}
    BY <1>4, AheadTwo
  <1> HIDE DEF S
  <1>9. Ahead(plan) \subseteq {add, set, host, file, exclude} \cup Ahead(F)
    <2>1. S \o B \in Seq(Step) /\ Ahead(S \o B) = {add, set} \cup Ahead(B)
      BY <1>5, <1>8, AheadSteps
    <2>2. S \o B \o E \in Seq(Step) /\ Ahead(S \o B \o E) = Ahead(S \o B) \cup Ahead(E)
      BY <1>6, <2>1, AheadSteps
    <2>3. Ahead(plan) = Ahead(S \o B \o E) \cup Ahead(F)
      BY ZenonT(30), <1>1, <1>7, <2>2, AheadSteps
    <2>4. QED
      BY <1>5, <1>6, <2>1, <2>2, <2>3
  <1>10. JoinsAsAsked(plan, p)
    BY <1>2, <1>7, <1>9 DEF JoinsAsAsked, Does
  <1>11. \A step \in Ahead(plan) : step.do.op \notin Leaves /\ step.do.op # "SetRange"
    BY <1>2, <1>7, <1>9 DEF Leaves
  <1>12. ASSUME NEW held PROVE WidensNoMore(held, plan, p)
    <2>1. plan # << >> => Head(plan) \in Ahead(plan)
      BY <1>3, AheadHead
    <2>2. QED
      BY <1>11, <2>1 DEF WidensNoMore, Does
  <1>13. QED
    BY <1>10, <1>11, <1>12, LeavesFirstAlone

-----------------------------------------------------------------------------
(* Plans keep minding *)

\* A step taken leaves a plan that minds.
LEMMA MindsAdvances ==
    ASSUME NEW srv, NEW new, NEW s, NEW desired, NEW c, NEW held,
           NEW steps \in Seq(Step), NEW rest \in Seq(Step), steps # << >>,
           Advance(steps, c, rest), Writing(held, steps, desired),
           Minds(srv, s, steps, desired),
           \A n \in Names : JoinedAsAsked(new, s, n, desired) =>
             \/ JoinedAsAsked(srv, s, n, desired)
             \/ c.op \in {"CreateRelationship", "AddToRelationship"}
    PROVE  Minds(new, s, rest, desired)
  <1>1. Successor(steps, rest)
    BY AdvanceSuccessor
  <1>2. /\ JoinsAsAsked(rest, desired) /\ LeavesFirst(rest)
        /\ Head(steps).do.op \in Joins =>
             \A step \in Ahead(rest) : step.do.op \notin Leaves
        /\ \A step \in Ahead(rest) : step.do.op \in Leaves =>
             \E before \in Ahead(steps) :
                 before.do.op \in Leaves /\ before.do.arg = step.do.arg
    BY <1>1, SuccessorMinds DEF Minds
  <1>3. ASSUME NEW step \in Ahead(rest), step.do.op \in Leaves
        PROVE  ~JoinedAsAsked(new, s, step.do.arg, desired)
    <2>1. ~JoinedAsAsked(srv, s, step.do.arg, desired)
      BY <1>2, <1>3 DEF Minds, LeavesOthers
    <2>2. Head(steps).do.op \notin Joins
      BY <1>2, <1>3
    <2>3. c.op \notin {"CreateRelationship", "AddToRelationship"}
      <3>1. CASE Head(steps).do.op \in BatchOps
        <4>1. c.op \in {"AddExclusion", "RemoveExclusion"}
          BY <3>1, AdvanceKinds DEF BatchOps
        <4>2. QED
          BY <4>1
      <3>2. CASE Head(steps).do.op \notin BatchOps
        <4>1. c = Head(steps).do
          BY <3>2, AdvanceKinds
        <4>2. QED
          BY <2>2, <4>1 DEF Joins
      <3>3. QED
        BY <3>1, <3>2
    <2>4. step \in Step
      BY DEF Ahead
    <2>5. step.do.arg \in Names
      BY <1>3, <2>4 DEF Step, Cmdlet, Batches, Lookups, Leaves
    <2>6. QED
      BY <2>1, <2>3, <2>5
  <1>4. WidensNoMore(new.scopes[s], rest, desired)
    <2>1. SUFFICES ASSUME rest # << >>, Does(Head(rest), "SetRange")
                   PROVE  Head(rest).do.arg = desired.range
      BY DEF WidensNoMore
    <2>2. rest = Tail(steps)
      BY <1>1, <2>1 DEF Successor, Does, BatchOps
    <2>3. Head(rest) \in Ahead(Tail(steps))
      BY <2>1, <2>2, AheadHead
    <2>4. QED
      BY <2>1, <2>3 DEF Writing, Towards, TowardsRange
  <1>5. QED
    BY <1>2, <1>3, <1>4 DEF Minds, LeavesOthers

\* What is promised of a scope the step is not about.
LEMMA MindsElsewhere ==
    ASSUME NEW srv, NEW new, NEW s, NEW desired, NEW steps \in Seq(Step),
           Minds(srv, s, steps, desired), new.scopes[s] = srv.scopes[s],
           \A n \in Names : JoinedAsAsked(new, s, n, desired) =>
             JoinedAsAsked(srv, s, n, desired)
    PROVE  Minds(new, s, steps, desired)
  <1>1. ASSUME NEW step \in Ahead(steps), step.do.op \in Leaves
        PROVE  ~JoinedAsAsked(new, s, step.do.arg, desired)
    <2>1. step \in Step
      BY DEF Ahead
    <2>2. step.do.arg \in Names
      BY <1>1, <2>1 DEF Step, Cmdlet, Batches, Lookups, Leaves
    <2>3. QED
      BY <1>1, <2>2 DEF Minds, LeavesOthers
  <1>2. QED
    BY <1>1 DEF Minds, LeavesOthers

\* The failover a scope is read to have is as asked for exactly if it is in that
\* relationship, and in no other.
LEMMA FailoverAsAsked ==
    ASSUME NEW srv \in Server, NEW s \in Scopes, OneRelationship(srv),
           NEW desired \in Payload
    PROVE  failover_of(srv, s) = desired.failover <=>
             IF desired.failover = None THEN RelationshipsOf(srv, s) = {}
             ELSE /\ JoinedAsAsked(srv, s, desired.failover.name, desired)
                  /\ srv.rels[desired.failover.name].tuning = desired.failover.tuning
  <1> DEFINE names == RelationshipsOf(srv, s)
             n == CHOOSE n \in names : TRUE
             want == desired.failover
  <1>0. want \in Failover \cup {None}
    BY DEF Payload
  <1>1. CASE names = {}
    <2>1. failover_of(srv, s) = None
      BY <1>1 DEF failover_of
    <2>2. want # None => ~Lists(srv, want.name, s)
      BY <1>0, <1>1, RelationshipsOfLists DEF Failover
    <2>3. QED
      BY <1>1, <2>1, <2>2 DEF JoinedAsAsked
  <1>2. CASE names # {}
    <2>1. n \in names
      BY <1>2
    <2>2. failover_of(srv, s) =
            [name |-> n, peer |-> srv.rels[n].peer, tuning |-> srv.rels[n].tuning]
      BY <1>2, Zenon DEF failover_of
    <2> HIDE DEF n
    <2>3. n \in Names /\ Lists(srv, n, s)
      BY <2>1, RelationshipsOfLists
    <2>4. srv.rels[n] \in Relationship
      BY <2>3 DEF Lists, Server
    <2>5. failover_of(srv, s) \in Failover
      BY <2>2, <2>3, <2>4 DEF Relationship, Failover
    <2>6. CASE want = None
      BY <1>2, <2>5, <2>6, AbsentIsNoValue
    <2>7. CASE want # None
      <3>1. want = [name |-> want.name, peer |-> want.peer, tuning |-> want.tuning]
            /\ want.name \in Names
        BY <1>0, <2>7 DEF Failover
      <3>2. Lists(srv, want.name, s) => want.name = n
        <4>1. Lists(srv, want.name, s) => want.name \in names
          BY <3>1, RelationshipsOfLists
        <4>2. QED
          BY <2>1, <4>1 DEF OneRelationship
      <3>3. failover_of(srv, s) = want <=>
              /\ n = want.name
              /\ srv.rels[n].peer = want.peer /\ srv.rels[n].tuning = want.tuning
        BY <2>2, <3>1
      <3>4. QED
        BY <2>3, <2>7, <3>2, <3>3 DEF JoinedAsAsked
    <2>8. QED
      BY <2>6, <2>7
  <1>3. QED
    BY <1>1, <1>2

-----------------------------------------------------------------------------
(* What is as it was asked for stays so *)

\* A cmdlet that undoes nothing of what is as desired.
Harmless(srv, s, c, desired) ==
    /\ c.op # "RemoveScope"
    /\ c.op = "SetRange" /\ srv.scopes[s].range = desired.range => c.arg = desired.range
    /\ c.op = "SetParams" => c.arg = desired.params
    /\ c.op = "SetOptions" => c.arg.dns = desired.dns /\ c.arg.gateway = desired.gateway
    /\ c.op = "RemoveRouter" => desired.gateway = None
    /\ c.op = "SetBootHost" => c.arg = desired.next
    /\ c.op = "RemoveBootHost" => desired.next = None
    /\ c.op = "SetBootFile" => c.arg = desired.file
    /\ c.op = "RemoveBootFile" => desired.file = None
    /\ c.op = "AddExclusion" => c.arg \in desired.exclusions
    /\ c.op = "RemoveExclusion" => c.arg \notin desired.exclusions
    /\ c.op \in {"CreateRelationship", "TuneRelationship"} =>
         desired.failover # None /\ c.arg = desired.failover
    /\ c.op = "AddToRelationship" =>
         desired.failover # None /\ c.arg = desired.failover.name
    /\ c.op \in {"RemoveFromRelationship", "RemoveRelationship"} =>
         ~JoinedAsAsked(srv, s, c.arg, desired)

\* Each field that is as desired stays so: those of the scope itself,
BareKept(held, new, desired) ==
    /\ held.mask = desired.mask => new.mask = desired.mask
    /\ held.range = desired.range => new.range = desired.range
    /\ held.params = desired.params => new.params = desired.params

\* its options,
OptionsKept(held, new, desired) ==
    /\ held.dns = desired.dns => new.dns = desired.dns
    /\ held.gateway = desired.gateway => new.gateway = desired.gateway
    /\ held.next = desired.next => new.next = desired.next
    /\ held.file = desired.file => new.file = desired.file

\* and its exclusions.
ExclusionsKept(held, new, desired) ==
    held.exclusions = desired.exclusions => new.exclusions = desired.exclusions

FieldsKept(held, new, desired) ==
    /\ BareKept(held, new, desired)
    /\ OptionsKept(held, new, desired)
    /\ ExclusionsKept(held, new, desired)

\* A scope that is there stays, with whatever of it is as desired.
Kept(srv, new, s, desired) ==
    /\ Exists(new, s)
    /\ FieldsKept(srv.scopes[s], new.scopes[s], desired)
    /\ failover_of(srv, s) = desired.failover => failover_of(new, s) = desired.failover

\* The cmdlets of a plan that minds are harmless.
LEMMA MindsHarmless ==
    ASSUME NEW srv, NEW s, NEW desired, NEW c \in Cmdlet,
           NEW steps \in Seq(Step), NEW rest, steps # << >>,
           Advance(steps, c, rest), Writing(srv.scopes[s], steps, desired),
           Minds(srv, s, steps, desired)
    PROVE  Harmless(srv, s, c, desired)
  <1> DEFINE next == Head(steps)
             held == srv.scopes[s]
             base == Base(held, steps)
  <1>1. next \in Ahead(steps)
    BY AheadHead
  <1>2. Towards(base, steps, desired) /\ next.do.op \in WritingOps
    BY <1>1 DEF Writing
  <1>3. WidensNoMore(held, steps, desired)
    BY DEF Minds
  <1> HIDE DEF next, base, held
  <1>4. CASE next.do.op \in BatchOps
    <2>1. /\ c.arg \in next.do.arg
          /\ \/ next.do.op = "AddExclusions" /\ c.op = "AddExclusion"
             \/ next.do.op = "RemoveExclusions" /\ c.op = "RemoveExclusion"
      BY <1>4, AdvanceKinds DEF next, BatchOps
    <2>2. /\ next.do.op = "AddExclusions" => next.do.arg \subseteq desired.exclusions
          /\ next.do.op = "RemoveExclusions" => next.do.arg \cap desired.exclusions = {}
      BY <1>1, <1>2 DEF Towards, TowardsExclusions, Does
    <2>3. QED
      BY <2>1, <2>2 DEF Harmless
  <1>5. CASE next.do.op \notin BatchOps
    <2>1. c = next.do
      BY <1>5, AdvanceKinds DEF next
    <2>2. c.op \in WritingOps \ BatchOps
      BY <1>2, <1>5, <2>1
    <2>3. c.op \notin {"RemoveScope", "AddExclusion", "RemoveExclusion"}
      BY <2>2 DEF WritingOps
    <2>4. c.op = "SetRange" /\ held.range = desired.range => c.arg = desired.range
      BY <1>3, <2>1 DEF WidensNoMore, Does, next
    <2>5. /\ c.op = "SetParams" => c.arg = desired.params
          /\ c.op = "SetOptions" =>
               c.arg.dns = desired.dns /\ c.arg.gateway = desired.gateway
          /\ c.op = "RemoveRouter" => desired.gateway = None
      BY <1>1, <1>2, <2>1 DEF Towards, TowardsParams, TowardsOptions, Does
    <2>6. /\ c.op = "SetBootHost" => c.arg = desired.next
          /\ c.op = "RemoveBootHost" => desired.next = None
          /\ c.op = "SetBootFile" => c.arg = desired.file
          /\ c.op = "RemoveBootFile" => desired.file = None
      BY <1>1, <1>2, <2>1 DEF Towards, TowardsBoot, Does
    <2>7. /\ c.op \in {"CreateRelationship", "TuneRelationship"} =>
               desired.failover # None /\ c.arg = desired.failover
          /\ c.op = "AddToRelationship" =>
               desired.failover # None /\ c.arg = desired.failover.name
      BY <1>1, <2>1 DEF Minds, JoinsAsAsked, Does
    <2>8. c.op \in {"RemoveFromRelationship", "RemoveRelationship"} =>
            ~JoinedAsAsked(srv, s, c.arg, desired)
      BY <1>1, <2>1 DEF Minds, LeavesOthers, Leaves
    <2>9. QED
      BY <2>3, <2>4, <2>5, <2>6, <2>7, <2>8 DEF Harmless, held
  <1>6. QED
    BY <1>4, <1>5

\* A harmless write of the configuration.
LEMMA AppliedKeeps ==
    ASSUME NEW srv \in Server, NEW s \in Scopes, NEW c \in Cmdlet,
           NEW desired \in Payload, Exists(srv, s), Harmless(srv, s, c, desired)
    PROVE  FieldsKept(srv.scopes[s], Applied(srv.scopes[s], c), desired)
  <1> DEFINE held == srv.scopes[s]
             new == Applied(held, c)
  <1>0. held \in ScopeConfig
    BY DEF Exists, Server
  <1> HIDE DEF held
  <1>1. /\ new.mask = held.mask
        /\ new.range = IF c.op = "SetRange" THEN c.arg ELSE held.range
        /\ new.params = IF c.op = "SetParams" THEN c.arg ELSE held.params
        /\ new.dns = IF c.op = "SetOptions" THEN c.arg.dns ELSE held.dns
    BY <1>0, AppliedFields
  <1>2. new.gateway = CASE c.op = "SetOptions" /\ c.arg.gateway # None -> c.arg.gateway
                        [] c.op = "RemoveRouter" -> None
                        [] OTHER -> held.gateway
    BY <1>0, AppliedFields
  <1>3. /\ new.next = CASE c.op = "SetBootHost" -> c.arg
                        [] c.op = "RemoveBootHost" -> None
                        [] OTHER -> held.next
        /\ new.file = CASE c.op = "SetBootFile" -> c.arg
                        [] c.op = "RemoveBootFile" -> None
                        [] OTHER -> held.file
    BY <1>0, AppliedFields
  <1>4. new.exclusions = CASE c.op = "AddExclusion" -> held.exclusions \cup {c.arg}
                           [] c.op = "RemoveExclusion" -> held.exclusions \ {c.arg}
                           [] OTHER -> held.exclusions
    BY <1>0, AppliedFields
  <1> HIDE DEF new
  <1>5. held.gateway = desired.gateway => new.gateway = desired.gateway
    BY <1>2 DEF Harmless
  <1>6. /\ held.next = desired.next => new.next = desired.next
        /\ held.file = desired.file => new.file = desired.file
    BY <1>3 DEF Harmless
  <1>7. held.exclusions = desired.exclusions => new.exclusions = desired.exclusions
    <2>1. CASE c.op = "AddExclusion"
      BY <1>4, <2>1 DEF Harmless
    <2>2. CASE c.op = "RemoveExclusion"
      BY <1>4, <2>2 DEF Harmless
    <2>3. CASE c.op \notin {"AddExclusion", "RemoveExclusion"}
      BY <1>4, <2>3
    <2>4. QED
      BY <2>1, <2>2, <2>3
  <1>8. /\ held.range = desired.range => new.range = desired.range
        /\ held.params = desired.params => new.params = desired.params
        /\ held.dns = desired.dns => new.dns = desired.dns
    BY <1>1 DEF Harmless, held
  <1>9. QED
    BY <1>1, <1>5, <1>6, <1>7, <1>8
       DEF FieldsKept, BareKept, OptionsKept, ExclusionsKept, new, held

\* A scope stays in the relationship asked for, which stays as it was asked for.
LEMMA RunKeepsRelationship ==
    ASSUME NEW srv \in Server, NEW s \in Scopes, NEW c \in Cmdlet, NEW desired,
           desired.failover \in Failover, Harmless(srv, s, c, desired),
           NEW n, n = desired.failover.name, JoinedAsAsked(srv, s, n, desired),
           srv.rels[n].tuning = desired.failover.tuning,
           NEW new, new = Run(srv, s, c).server
    PROVE  /\ JoinedAsAsked(new, s, n, desired)
           /\ new.rels[n].tuning = desired.failover.tuning
  <1> DEFINE want == desired.failover
  <1>0. /\ srv.rels \in [Names -> Relationship \cup {None}] /\ n \in Names
        /\ srv.rels[n] # None /\ s \in srv.rels[n].members /\ srv.rels[n].peer = want.peer
        /\ srv.rels[n].tuning = want.tuning /\ want # None
    BY DEF Server, JoinedAsAsked, Lists, Failover
  <1>1. RelationshipsOf(srv, s) # {}
    BY <1>0 DEF RelationshipsOf
  <1>2. SUFFICES /\ new.rels[n] # None /\ s \in new.rels[n].members
                 /\ new.rels[n].peer = want.peer /\ new.rels[n].tuning = want.tuning
    BY <1>0 DEF JoinedAsAsked, Lists
  <1>3. CASE new.rels = srv.rels
    BY <1>0, <1>3
  <1>4. CASE c.op \in ConfigOps \cup {"AddScope", "RemoveScope"}
    BY <1>3, <1>4, RunLeavesRelationships
  <1>5. CASE c.op = "CreateRelationship"
    <2>1. new = srv
      BY <1>1, <1>5 DEF Run, RunOnScope, RelationshipOps, CreateRelationship, Answers
    <2>2. QED
      BY <1>3, <2>1
  <1>6. CASE c.op = "AddToRelationship"
    <2>1. new = srv
      BY <1>1, <1>6 DEF Run, RunOnScope, RelationshipOps, AddToRelationship, Answers
    <2>2. QED
      BY <1>3, <2>1
  <1>7. CASE c.op = "RemoveFromRelationship"
    <2>1. \/ new.rels = srv.rels
          \/ new.rels = [srv.rels EXCEPT ![c.arg].members = @ \ {s}]
      BY <1>7 DEF Run, RunOnRelationship, RelationshipOps, RemoveFromRelationship, Answers
    <2>2. c.arg # n
      BY <1>7 DEF Harmless
    <2>3. QED
      BY <1>0, <2>1, <2>2
  <1>8. CASE c.op = "RemoveRelationship"
    <2>1. \/ new.rels = srv.rels
          \/ new.rels = [srv.rels EXCEPT ![c.arg] = None]
      BY <1>8 DEF Run, RunOnRelationship, RelationshipOps, RemoveRelationship, Answers
    <2>2. c.arg # n
      BY <1>8 DEF Harmless
    <2>3. QED
      BY <1>0, <2>1, <2>2
  <1>9. CASE c.op = "TuneRelationship"
    <2>1. \/ new.rels = srv.rels
          \/ new.rels = [srv.rels EXCEPT ![c.arg.name].tuning = c.arg.tuning]
      BY <1>9 DEF Run, RunOnRelationship, RelationshipOps, TuneRelationship, Answers
    <2>2. c.arg = want
      BY <1>9 DEF Harmless
    <2>3. srv.rels[n] \in Relationship
      BY <1>0
    <2>4. QED
      BY <1>0, <2>1, <2>2, <2>3 DEF Relationship
  <1>10. CASE c.op = "Replicate"
    BY <1>3, <1>10 DEF Run, RunOnScope, RelationshipOps, Replicate, Answers
  <1>11. QED
    BY <1>4, <1>5, <1>6, <1>7, <1>8, <1>9, <1>10, ConfigArgs DEF RelationshipOps

\* A harmless cmdlet keeps what is as desired, and is harmless again.
LEMMA RunKept ==
    ASSUME NEW srv \in Server, NEW s \in Scopes, NEW c \in Cmdlet,
           NEW desired \in Payload, OneRelationship(srv), Exists(srv, s),
           Harmless(srv, s, c, desired), NEW new, new = Run(srv, s, c).server
    PROVE  /\ Kept(srv, new, s, desired) /\ Harmless(new, s, c, desired)
           /\ new \in Server /\ OneRelationship(new)
  <1>1. new \in Server /\ OneRelationship(new)
    BY RunType, RunOneRelationship
  <1>2. srv.scopes[s] \in ScopeConfig /\ srv.scopes[s] # None
    BY DEF Exists, Server
  <1>3. \/ new.scopes[s] = srv.scopes[s]
        \/ new.scopes[s] = Applied(srv.scopes[s], c)
    <2>1. CASE c.op = "AddScope"
      BY <2>1, RunCreates
    <2>2. CASE c.op # "AddScope"
      BY <2>2, RunApplies DEF Harmless
    <2>3. QED
      BY <2>1, <2>2
  <1>4. Applied(srv.scopes[s], c) \in ScopeConfig
    BY <1>2, AppliedType
  <1>5. Exists(new, s)
    BY <1>2, <1>3, <1>4, AbsentIsNoValue DEF Exists
  <1>6. FieldsKept(srv.scopes[s], new.scopes[s], desired)
    <2>1. FieldsKept(srv.scopes[s], Applied(srv.scopes[s], c), desired)
      BY AppliedKeeps
    <2>2. FieldsKept(srv.scopes[s], srv.scopes[s], desired)
      BY DEF FieldsKept, BareKept, OptionsKept, ExclusionsKept
    <2>3. QED
      BY <1>3, <2>1, <2>2
  <1>7. ASSUME failover_of(srv, s) = desired.failover
        PROVE  failover_of(new, s) = desired.failover
    <2>1. CASE desired.failover = None
      <3>1. RelationshipsOf(srv, s) = {}
        BY <1>7, <2>1, FailoverAsAsked
      <3>2. ASSUME NEW n \in RelationshipsOf(new, s) PROVE FALSE
        <4>1. n \in Names /\ Lists(new, n, s) /\ ~Lists(srv, n, s)
          BY <3>1, <3>2, RelationshipsOfLists
        <4>2. c.op \in {"CreateRelationship", "AddToRelationship"}
          BY <4>1, RunLists
        <4>3. QED
          BY <2>1, <4>2 DEF Harmless
      <3>3. RelationshipsOf(new, s) = {}
        BY <3>2
      <3>4. QED
        BY <1>1, <2>1, <3>3, FailoverAsAsked
    <2>2. CASE desired.failover # None
      <3>1. desired.failover \in Failover
        BY <2>2 DEF Payload
      <3>2. /\ JoinedAsAsked(srv, s, desired.failover.name, desired)
            /\ srv.rels[desired.failover.name].tuning = desired.failover.tuning
        BY <1>7, <2>2, FailoverAsAsked
      <3>3. /\ JoinedAsAsked(new, s, desired.failover.name, desired)
            /\ new.rels[desired.failover.name].tuning = desired.failover.tuning
        BY <3>1, <3>2, RunKeepsRelationship
      <3>4. QED
        BY <1>1, <2>2, <3>3, FailoverAsAsked
    <2>3. QED
      BY <2>1, <2>2
  <1>8. Kept(srv, new, s, desired)
    BY <1>5, <1>6, <1>7 DEF Kept
  <1>9. Harmless(new, s, c, desired)
    <2>1. c.op = "SetRange" /\ new.scopes[s].range = desired.range => c.arg = desired.range
      <3>1. c.op = "SetRange" => Applied(srv.scopes[s], c).range = c.arg
        BY <1>2, AppliedFields
      <3>2. QED
        BY <1>3, <3>1 DEF Harmless
    <2>2. c.op \in {"RemoveFromRelationship", "RemoveRelationship"} =>
            ~JoinedAsAsked(new, s, c.arg, desired)
      BY RunJoins, ConfigArgs DEF Harmless
    <2>3. QED
      BY <2>1, <2>2 DEF Harmless
  <1>10. QED
    BY <1>1, <1>8, <1>9

\* Keeping is transitive.
LEMMA KeptTwice ==
    ASSUME NEW a, NEW b, NEW c, NEW s, NEW desired,
           Kept(a, b, s, desired), Kept(b, c, s, desired)
    PROVE  Kept(a, c, s, desired)
  BY DEF Kept, FieldsKept, BareKept, OptionsKept, ExclusionsKept

\* However a harmless script ends, it keeps what is as desired.
LEMMA TookKept ==
    ASSUME NEW srv \in Server, NEW s \in Scopes, NEW c \in Cmdlet,
           NEW desired \in Payload, OneRelationship(srv), Exists(srv, s),
           Harmless(srv, s, c, desired), NEW new, NEW outcome,
           Took(srv, s, c, new, outcome)
    PROVE  Kept(srv, new, s, desired)
  <1> DEFINE once == Run(srv, s, c).server
             again == Run(once, s, c).server
  <1>1. new \in {srv, once, again}
    BY DEF Took, Twice
  <1>2. Kept(srv, srv, s, desired)
    BY DEF Kept, FieldsKept, BareKept, OptionsKept, ExclusionsKept
  <1>3. /\ Kept(srv, once, s, desired) /\ Harmless(once, s, c, desired)
        /\ once \in Server /\ OneRelationship(once)
    BY RunKept
  <1> HIDE DEF once
  <1>4. Exists(once, s)
    BY <1>3 DEF Kept
  <1>5. Kept(once, again, s, desired)
    BY <1>3, <1>4, RunKept
  <1> HIDE DEF again
  <1>6. QED
    BY <1>1, <1>2, <1>3, <1>5, KeptTwice

-----------------------------------------------------------------------------
(* The steps of the service *)

\* Whatever happens to r happens to no other request.
Alone(r) ==
    \A q \in Requests \ {r} :
        pc'[q] = pc[q] /\ todo'[q] = todo[q] /\ request'[q] = request[q]

\* A request arrives, waits, reads, or is answered.
Rests(r) == server' = server /\ pc'[r] \notin {"create", "converge"}

\* A write begins its plan.
SetsOut(r) ==
    /\ server' = server /\ request' = request
    /\ pc[r] \in Locked /\ verb(r) # "DELETE"
    /\ \/ pc'[r] = "create" /\ todo'[r] = create_plan(request[r].desired)
       \/ /\ pc'[r] = "converge" /\ Reading(server, scope(r)) = "ok"
          /\ todo'[r] = converge_plan(Assembled(server, scope(r)), request[r].desired)

\* A plan looks a relationship up.
LooksUp(r) ==
    /\ server' = server /\ request' = request
    /\ pc[r] \in {"create", "converge", "delete"} /\ pc'[r] = pc[r]
    /\ todo[r] # << >> /\ todo'[r] \in Seq(Step)
    /\ Advance(todo[r], Head(todo[r]).do, todo'[r])
    /\ Head(todo[r]).do.op \in LookupOps

\* A plan runs a script.
Issues(r) ==
    /\ request' = request
    /\ pc[r] \in {"create", "converge", "delete"} /\ todo[r] # << >>
    /\ \E issued \in Issuable(todo[r]), outcome \in Outcomes \cup {"timeout", "broken"} :
         /\ Took(server, scope(r), issued.cmdlet, server', outcome)
         /\ \/ pc'[r] = "done"
            \/ pc'[r] = pc[r] /\ todo'[r] = issued.rest

\* An answer, or a stage gone over to, concerns one request.
LEMMA AnswerAlone ==
    ASSUME IInv, NEW r \in Requests, request' = request
    PROVE  /\ \A status, body : Answer(r, status, body) => Alone(r) /\ pc'[r] = "done"
           /\ \A place, steps : Proceed(r, place, steps) =>
                Alone(r) /\ pc'[r] = place /\ todo'[r] = steps
  <1>1. /\ pc \in [Requests -> Stages] /\ todo \in [Requests -> Seq(Step)]
    BY DEF IInv, Control, ControlType
  <1>2. ASSUME NEW status, NEW body, Answer(r, status, body)
        PROVE  Alone(r) /\ pc'[r] = "done"
    BY <1>1, <1>2 DEF Answer, Alone
  <1>3. ASSUME NEW place, NEW steps, Proceed(r, place, steps)
        PROVE  Alone(r) /\ pc'[r] = place /\ todo'[r] = steps
    BY <1>1, <1>3 DEF Proceed, Alone
  <1>4. QED
    BY <1>2, <1>3

\* The steps of the reads and their ends.
LEMMA ReadForms ==
    ASSUME PInv, NEW r \in Requests,
           \/ get_scope(r) \/ scope_exists(r) \/ assemble_to_converge(r)
           \/ assemble_to_delete(r) \/ respond(r) \/ respond_deleted(r) \/ FailRead(r)
    PROVE  /\ Alone(r) /\ request' = request /\ pc'[r] # "idle"
           /\ pc'[r] = "delete" => pc[r] = "delete" \/ verb(r) = "DELETE"
           /\ Rests(r) \/ SetsOut(r)
  <1> DEFINE s == scope(r)
             current == Assembled(server, s)
             desired == request[r].desired
             reading == Reading(server, s)
             Ends == \E status, body : Answer(r, status, body)
  <1>1. server' = server /\ request' = request
    BY DEF get_scope, scope_exists, assemble_to_converge, assemble_to_delete,
           respond, respond_deleted, FailRead
  <1>2. Ends => Alone(r) /\ pc'[r] = "done"
    BY <1>1, AnswerAlone DEF PInv
  <1>3. \A place, steps : Proceed(r, place, steps) =>
          Alone(r) /\ pc'[r] = place /\ todo'[r] = steps
    BY <1>1, AnswerAlone DEF PInv
  <1>4. reading \in {"missing", "conflict", "invalid", "ok"}
    BY ReadingCases
  <1>5. reading # "ok" /\ Unreadable(r, reading) => Ends
    BY <1>4, UnreadableAnswers
  <1>6. Ends =>
          /\ Alone(r) /\ request' = request /\ pc'[r] # "idle"
          /\ pc'[r] = "delete" => pc[r] = "delete" \/ verb(r) = "DELETE"
          /\ Rests(r) \/ SetsOut(r)
    BY <1>1, <1>2 DEF Rests
  <1> HIDE DEF Ends, s, current, desired, reading
  <1>7. CASE get_scope(r) \/ respond(r) \/ respond_deleted(r) \/ FailRead(r)
    <2>1. Ends
      <3>1. CASE get_scope(r)
        BY <1>5, <3>1 DEF get_scope, s, current, reading, Ends
      <3>2. CASE respond(r)
        <4>1. \/ Answer(r, "ok", current) \/ Answer(r, "error", None)
              \/ reading # "ok" /\ Unreadable(r, reading)
          BY <3>2 DEF respond, s, current, reading
        <4>2. QED
          BY <1>5, <4>1 DEF Ends
      <3>3. CASE respond_deleted(r)
        BY <3>3 DEF respond_deleted, Ends
      <3>4. CASE FailRead(r)
        BY <3>4 DEF FailRead, Ends
      <3>5. QED
        BY <1>7, <3>1, <3>2, <3>3, <3>4
    <2>2. QED
      BY <1>6, <2>1
  <1>8. CASE scope_exists(r)
    <2>1. /\ pc[r] \in Locked
          /\ \/ Proceed(r, "assemble", << >>)
             \/ verb(r) = "POST" /\ Proceed(r, "create", create_plan(desired))
             \/ Answer(r, "gone", None)
      BY <1>8 DEF scope_exists, desired, Locked
    <2>2. CASE Proceed(r, "assemble", << >>)
      BY <1>1, <1>3, <2>2 DEF Rests
    <2>3. CASE verb(r) = "POST" /\ Proceed(r, "create", create_plan(desired))
      BY <1>1, <1>3, <2>1, <2>3 DEF SetsOut, desired
    <2>4. QED
      BY <1>6, <2>1, <2>2, <2>3 DEF Ends
  <1>9. CASE assemble_to_converge(r)
    <2>1. /\ pc[r] \in Locked /\ verb(r) # "DELETE"
          /\ \/ reading # "ok" /\ Unreadable(r, reading)
             \/ Answer(r, "immutable_field", None)
             \/ reading = "ok" /\ Proceed(r, "converge", converge_plan(current, desired))
      BY <1>9 DEF assemble_to_converge, s, current, desired, reading, Locked
    <2>2. CASE reading = "ok" /\ Proceed(r, "converge", converge_plan(current, desired))
      BY <1>1, <1>3, <2>1, <2>2 DEF SetsOut, desired, current, reading, s
    <2>3. QED
      BY <1>5, <1>6, <2>1, <2>2 DEF Ends
  <1>10. CASE assemble_to_delete(r)
    <2>1. /\ verb(r) = "DELETE"
          /\ \/ Proceed(r, "delete", delete_plan(current))
             \/ Answer(r, "gone", None)
             \/ reading # "ok" /\ Unreadable(r, reading)
      BY <1>4, <1>10 DEF assemble_to_delete, s, current, reading
    <2>2. CASE Proceed(r, "delete", delete_plan(current))
      BY <1>1, <1>3, <2>1, <2>2 DEF Rests
    <2>3. QED
      BY <1>5, <1>6, <2>1, <2>2 DEF Ends
  <1>11. QED
    BY <1>7, <1>8, <1>9, <1>10

\* A script, and a lookup.
LEMMA ScriptForms ==
    ASSUME PInv, NEW r \in Requests,
           _run_ps(r) \/ FailCmdlet(r) \/ Rerun(r) \/ _fetch_failover_by_name(r)
    PROVE  /\ Alone(r) /\ request' = request /\ pc'[r] # "idle"
           /\ pc'[r] = "delete" => pc[r] = "delete"
           /\ LooksUp(r) \/ Issues(r)
  <1>1. CASE _fetch_failover_by_name(r)
    <2>1. PICK rest \in Seq(Step) :
            /\ Proceed(r, pc[r], rest)
            /\ Advance(todo[r], Head(todo[r]).do, rest)
            /\ Head(todo[r]).do.op \in LookupOps
            /\ pc[r] \in {"create", "converge", "delete"} /\ todo[r] # << >>
      BY <1>1, LookupAdvances DEF PInv
    <2>2. server' = server /\ request' = request
      BY <1>1 DEF _fetch_failover_by_name
    <2>3. Alone(r) /\ pc'[r] = pc[r] /\ todo'[r] = rest
      BY <2>1, <2>2, AnswerAlone DEF PInv
    <2>4. QED
      BY <2>1, <2>2, <2>3 DEF LooksUp
  <1>2. CASE _run_ps(r) \/ FailCmdlet(r) \/ Rerun(r)
    <2>1. /\ pc[r] \in {"create", "converge", "delete"} /\ todo[r] # << >>
          /\ request' = request
      BY <1>2, ScriptEffect DEF PInv
    <2>2. PICK issued \in Issuable(todo[r]), outcome \in Outcomes \cup {"timeout", "broken"} :
            /\ Took(server, scope(r), issued.cmdlet, server', outcome)
            /\ Conclude(r, issued.rest, outcome)
      BY <1>2, ScriptEffect DEF PInv
    <2>3. \/ Proceed(r, pc[r], issued.rest)
          \/ Answer(r, ErrorStatus(outcome), None)
      BY <2>2 DEF Conclude
    <2>4. /\ Alone(r)
          /\ \/ pc'[r] = "done"
             \/ pc'[r] = pc[r] /\ todo'[r] = issued.rest
      BY <2>1, <2>3, AnswerAlone DEF PInv
    <2>5. QED
      BY <2>1, <2>2, <2>4 DEF Issues
  <1>3. QED
    BY <1>1, <1>2

\* A request that arrives, or takes the lock.
LEMMA ArrivalForms ==
    ASSUME PInv, NEW r \in Requests, Client(r) \/ lock(r)
    PROVE  /\ Alone(r) /\ (pc[r] = "idle" \/ request' = request) /\ pc'[r] # "idle"
           /\ pc'[r] # "delete" /\ Rests(r)
  <1>1. /\ pc \in [Requests -> Stages] /\ todo \in [Requests -> Seq(Step)]
        /\ request \in [Requests -> Request \cup {None}]
    BY DEF PInv, IInv, Control, ControlType
  <1>2. CASE Client(r)
    <2>1. /\ pc[r] = "idle" /\ server' = server /\ todo' = todo
          /\ \E q : request' = [request EXCEPT ![r] = q]
          /\ \E place \in {"read", "locking"} : pc' = [pc EXCEPT ![r] = place]
      BY <1>2 DEF Client, Submit
    <2>2. QED
      BY <1>1, <2>1 DEF Alone, Rests
  <1>3. CASE lock(r)
    <2>1. /\ server' = server /\ todo' = todo /\ request' = request
          /\ \E place \in {"assemble", "exists"} : pc' = [pc EXCEPT ![r] = place]
      BY <1>3 DEF lock
    <2>2. QED
      BY <1>1, <2>1 DEF Alone, Rests
  <1>4. QED
    BY <1>2, <1>3

\* The forms of all steps: a restart, or a step of one request.
LEMMA StepForms ==
    ASSUME KInv, Next
    PROVE  \/ /\ server' = server /\ request' = request
              /\ \A q \in Requests :
                   /\ pc'[q] \in {"idle", "done"}
                   /\ pc'[q] = "idle" => pc[q] = "idle"
           \/ \E r \in Requests :
                /\ Alone(r) /\ (pc[r] = "idle" \/ request' = request) /\ pc'[r] # "idle"
                /\ pc'[r] = "delete" => request' = request /\ verb(r) = "DELETE"
                /\ Rests(r) \/ SetsOut(r) \/ LooksUp(r) \/ Issues(r)
  <1>1. CASE Crash
    BY <1>1 DEF Crash
  <1>2. ASSUME NEW r \in Requests, Client(r) \/ Handle(r)
        PROVE  /\ Alone(r) /\ (pc[r] = "idle" \/ request' = request) /\ pc'[r] # "idle"
               /\ pc'[r] = "delete" => request' = request /\ verb(r) = "DELETE"
               /\ Rests(r) \/ SetsOut(r) \/ LooksUp(r) \/ Issues(r)
    <2>1. CASE Client(r) \/ lock(r)
      BY <2>1, ArrivalForms DEF KInv
    <2>2. CASE \/ get_scope(r) \/ scope_exists(r) \/ assemble_to_converge(r)
               \/ assemble_to_delete(r) \/ respond(r) \/ respond_deleted(r) \/ FailRead(r)
      BY <2>2, ReadForms DEF KInv, DeletesByVerb
    <2>3. CASE _run_ps(r) \/ FailCmdlet(r) \/ Rerun(r) \/ _fetch_failover_by_name(r)
      BY <2>3, ScriptForms DEF KInv, DeletesByVerb
    <2>4. QED
      BY <1>2, <2>1, <2>2, <2>3 DEF Handle
  <1>3. QED
    BY <1>1, <1>2 DEF Next

-----------------------------------------------------------------------------
(* All writes mind *)

\* A plan that begins minds.
LEMMA StartsMinding ==
    ASSUME PInv, NEW r \in Requests, SetsOut(r)
    PROVE  Minds(server, scope(r), todo'[r], request[r].desired)
  <1> DEFINE s == scope(r)
             desired == request[r].desired
             current == Assembled(server, s)
  <1>1. /\ s \in Scopes /\ server \in Server /\ OneRelationship(server)
        /\ desired \in Payload /\ Valid(desired)
    BY HolderFacts DEF SetsOut, PInv
  <1>2. CASE todo'[r] = create_plan(desired)
    <2>1. /\ JoinsAsAsked(todo'[r], desired) /\ LeavesFirst(todo'[r])
          /\ \A step \in Ahead(todo'[r]) : step.do.op \notin Leaves
          /\ \A held : WidensNoMore(held, todo'[r], desired)
      BY <1>1, <1>2, CreateMinds
    <2>2. QED
      BY <2>1 DEF Minds, LeavesOthers
  <1>3. CASE Reading(server, s) = "ok" /\ todo'[r] = converge_plan(current, desired)
    <2>1. current \in Payload
      BY <1>1, <1>3, AssembledType
    <2>2. current.range = server.scopes[s].range /\ current.failover = failover_of(server, s)
      BY DEF Assembled
    <2> HIDE DEF current
    <2>3. /\ JoinsAsAsked(todo'[r], desired) /\ LeavesFirst(todo'[r])
          /\ \A step \in Ahead(todo'[r]) : step.do.op \in Leaves =>
               /\ current.failover # None
               /\ step.do.arg = current.failover.name
               /\ \/ desired.failover = None
                  \/ current.failover.name # desired.failover.name
                  \/ current.failover.peer # desired.failover.peer
          /\ WidensNoMore(current, todo'[r], desired)
      BY <1>1, <1>3, <2>1, ConvergeMinds
    <2>4. current.failover # None =>
            current.failover.peer = server.rels[current.failover.name].peer
      <3> DEFINE names == RelationshipsOf(server, s)
                 n == CHOOSE n \in names : TRUE
      <3>1. failover_of(server, s) =
              IF names = {} THEN None
              ELSE [name |-> n, peer |-> server.rels[n].peer,
                    tuning |-> server.rels[n].tuning]
        BY Zenon DEF failover_of
      <3> HIDE DEF n, names
      <3>2. QED
        BY <2>2, <3>1
    <2>5. ASSUME NEW step \in Ahead(todo'[r]), step.do.op \in Leaves
          PROVE  ~JoinedAsAsked(server, s, step.do.arg, desired)
      BY <2>3, <2>4, <2>5 DEF JoinedAsAsked
    <2>6. WidensNoMore(server.scopes[s], todo'[r], desired)
      BY <2>2, <2>3 DEF WidensNoMore
    <2>7. QED
      BY <2>3, <2>5, <2>6 DEF Minds, LeavesOthers
  <1>4. QED
    BY <1>2, <1>3 DEF SetsOut

\* A script leaves its own plan minding, and those of others.
LEMMA IssuesMinding ==
    ASSUME KInv, NEW r \in Requests, Issues(r), Alone(r), NEW q \in Requests,
           pc'[q] \in {"create", "converge"}
    PROVE  Minds(server', scope(q), todo'[q], request'[q].desired)
  <1> DEFINE s == scope(r)
             desired == request[q].desired
  <1>1. /\ request' = request
        /\ pc[r] \in {"create", "converge", "delete"} /\ todo[r] # << >>
    BY DEF Issues
  <1>2. PICK issued \in Issuable(todo[r]), outcome \in Outcomes \cup {"timeout", "broken"} :
          /\ Took(server, s, issued.cmdlet, server', outcome)
          /\ \/ pc'[r] = "done"
             \/ pc'[r] = pc[r] /\ todo'[r] = issued.rest
    BY DEF Issues
  <1>3. pc[r] \in Locked
    BY <1>1 DEF Locked
  <1>4. s \in Scopes /\ server \in Server /\ todo[r] \in Seq(Step)
    BY <1>3, HolderFacts DEF KInv, PInv
  <1>5. issued.cmdlet \in Cmdlet /\ issued.rest \in Seq(Step)
    BY <1>1, <1>2, <1>4, IssuableType
  <1>6. Advance(todo[r], issued.cmdlet, issued.rest)
    BY <1>1, <1>2, <1>4, IssuableAdvances
  <1>7. \A t \in Scopes, n \in Names : JoinedAsAsked(server', t, n, desired) =>
          \/ JoinedAsAsked(server, t, n, desired)
          \/ t = s /\ issued.cmdlet.op \in {"CreateRelationship", "AddToRelationship"}
    BY <1>2, <1>4, <1>5, TookJoins
  <1> HIDE DEF desired
  <1>8. CASE q = r
    <2>1. pc[r] \in {"create", "converge"} /\ todo'[r] = issued.rest
      BY <1>2, <1>8
    <2>2. /\ Minds(server, s, todo[r], desired)
          /\ Writing(server.scopes[s], todo[r], desired)
      BY <1>8, <2>1 DEF KInv, PInv, WritesMind, WritesOnTheWay, desired
    <2>3. \A n \in Names : JoinedAsAsked(server', s, n, desired) =>
            \/ JoinedAsAsked(server, s, n, desired)
            \/ issued.cmdlet.op \in {"CreateRelationship", "AddToRelationship"}
      BY <1>4, <1>7
    <2> HIDE DEF s
    <2>4. Minds(server', s, issued.rest, desired)
      BY <1>1, <1>4, <1>5, <1>6, <2>2, <2>3, MindsAdvances
    <2>5. QED
      BY <1>1, <1>8, <2>1, <2>4 DEF s, desired
  <1>9. CASE q # r
    <2>1. pc[q] \in {"create", "converge"} /\ todo'[q] = todo[q]
      BY <1>9 DEF Alone
    <2>2. scope(q) # s /\ scope(q) \in Scopes
      BY <1>3, <1>9, <2>1, HoldersDiffer DEF KInv, PInv, Locked
    <2>3. Minds(server, scope(q), todo[q], desired) /\ todo[q] \in Seq(Step)
      BY <2>1 DEF KInv, WritesMind, PInv, IInv, Control, ControlType, desired
    <2>4. server'.scopes[scope(q)] = server.scopes[scope(q)]
      <3>1. Run(server, s, issued.cmdlet).server \in Server
        BY <1>4, <1>5, RunType
      <3>2. /\ Run(server, s, issued.cmdlet).server.scopes[scope(q)] =
                 server.scopes[scope(q)]
            /\ Twice(server, s, issued.cmdlet).server.scopes[scope(q)] =
                 Run(server, s, issued.cmdlet).server.scopes[scope(q)]
        BY <1>4, <1>5, <2>2, <3>1, RunElsewhere DEF Twice
      <3>3. QED
        BY <1>2, <3>2 DEF Took
    <2>5. \A n \in Names : JoinedAsAsked(server', scope(q), n, desired) =>
            JoinedAsAsked(server, scope(q), n, desired)
      BY <1>7, <2>2
    <2>6. Minds(server', scope(q), todo[q], desired)
      BY <2>3, <2>4, <2>5, MindsElsewhere
    <2>7. QED
      BY <1>1, <2>1, <2>6 DEF desired
  <1>10. QED
    BY <1>8, <1>9

\* Every step leaves all plans minding.
LEMMA NextKInv == KInv /\ [Next]_vars => KInv'
  <1> SUFFICES ASSUME KInv, [Next]_vars PROVE KInv'
    OBVIOUS
  <1>1. PInv /\ PInv'
    BY NextPInv DEF KInv
  <1>2. CASE UNCHANGED vars
    BY <1>1, <1>2 DEF KInv, WritesMind, DeletesByVerb, vars, scope, verb
  <1>3. CASE \A q \in Requests : pc'[q] \in {"idle", "done"}
    BY <1>1, <1>3 DEF KInv, WritesMind, DeletesByVerb
  <1>4. ASSUME NEW r \in Requests, Alone(r), pc[r] = "idle" \/ request' = request,
               pc'[r] = "delete" => request' = request /\ verb(r) = "DELETE",
               Rests(r) \/ SetsOut(r) \/ LooksUp(r) \/ Issues(r)
        PROVE  KInv'
    <2>1. ASSUME NEW q \in Requests, pc'[q] \in {"create", "converge"}
          PROVE  Minds(server', scope(q)', todo'[q], request'[q].desired)
      <3>1. request'[q] = request[q]
        BY <1>4, <2>1 DEF Alone, Rests, SetsOut, LooksUp, Issues
      <3>2. scope(q)' = scope(q)
        BY <3>1 DEF scope
      <3>3. CASE Issues(r)
        BY <1>4, <2>1, <3>2, <3>3, IssuesMinding
      <3>4. CASE ~Issues(r) /\ q # r
        <4>1. server' = server /\ pc[q] = pc'[q] /\ todo'[q] = todo[q]
          BY <1>4, <3>4 DEF Alone, Rests, SetsOut, LooksUp
        <4>2. QED
          BY <2>1, <3>1, <3>2, <4>1 DEF KInv, WritesMind
      <3>5. CASE q = r /\ SetsOut(r)
        <4>1. server' = server
          BY <3>5 DEF SetsOut
        <4>2. QED
          BY <1>1, <3>1, <3>2, <3>5, <4>1, StartsMinding
      <3>6. CASE q = r /\ LooksUp(r)
        <4>1. /\ server' = server /\ pc[r] \in {"create", "converge"}
              /\ todo[r] # << >> /\ todo'[r] \in Seq(Step)
              /\ Advance(todo[r], Head(todo[r]).do, todo'[r])
          BY <2>1, <3>6 DEF LooksUp
        <4>2. todo[r] \in Seq(Step)
          BY <1>1 DEF PInv, IInv, Control, ControlType
        <4>3. /\ Minds(server, scope(r), todo[r], request[r].desired)
              /\ Writing(server.scopes[scope(r)], todo[r], request[r].desired)
          BY <1>1, <4>1 DEF KInv, WritesMind, PInv, WritesOnTheWay
        <4>4. Minds(server, scope(r), todo'[r], request[r].desired)
          BY <4>1, <4>2, <4>3, MindsAdvances
        <4>5. QED
          BY <3>1, <3>2, <3>6, <4>1, <4>4
      <3>7. CASE q = r /\ Rests(r)
        BY <2>1, <3>7 DEF Rests
      <3>8. QED
        BY <1>4, <3>3, <3>4, <3>5, <3>6, <3>7
    <2>2. WritesMind'
      BY <2>1 DEF WritesMind
    <2>3. DeletesByVerb'
      <3>1. ASSUME NEW q \in Requests, pc'[q] = "delete" PROVE request'[q].verb = "DELETE"
        <4>1. CASE q = r
          BY <1>4, <3>1, <4>1 DEF verb
        <4>2. CASE q # r
          BY <1>4, <3>1, <4>2 DEF Alone, KInv, DeletesByVerb, verb
        <4>3. QED
          BY <4>1, <4>2
      <3>2. QED
        BY <3>1 DEF DeletesByVerb, verb
    <2>4. QED
      BY <1>1, <2>2, <2>3 DEF KInv
  <1>5. QED
    BY <1>1, <1>2, <1>3, <1>4, StepForms

\* At the start there are no plans.
LEMMA InitKInv == Init => KInv
  <1> SUFFICES ASSUME Init PROVE KInv
    OBVIOUS
  <1>1. \A r \in Requests : pc[r] = "idle"
    BY DEF Init
  <1>2. QED
    BY <1>1, InitPInv DEF KInv, WritesMind, DeletesByVerb

-----------------------------------------------------------------------------
(* Writes that nothing stops *)

\* Windows takes each range ahead after the one it replaces.
RangesFit(held, steps) ==
    \A i \in 1 .. Len(steps) : Does(steps[i], "SetRange") =>
        IF i = 1 THEN Accepted(held.range, steps[i].do.arg)
        ELSE /\ Does(steps[i - 1], "SetRange")
             /\ Accepted(steps[i - 1].do.arg, steps[i].do.arg)

\* No exclusion is added that is there, unless that is tolerated, and none
\* removed that is not.
ExclusionsFit(base, steps) ==
    \A step \in Ahead(steps) :
        /\ Does(step, "AddExclusions") =>
             \/ "alreadyExists" \in step.tolerates
             \/ step.do.arg \cap base.exclusions = {}
        /\ Does(step, "RemoveExclusions") =>
             \/ "notFound" \in step.tolerates
             \/ step.do.arg \subseteq base.exclusions

\* What an operation may be followed by in a plan.
Before(op, next) ==
    /\ op # "Replicate"
    /\ op \in BatchOps \cup {"RemoveFromRelationship", "RemoveScope"} => next # op
    /\ op \in {"CleanupRelationship", "RemoveRelationship"} => next \notin Leaves
    /\ op \in Joins \cup {"TuneRelationship"} =>
         next \notin Joins \cup Leaves \cup {"TuneRelationship"}

InOrder(steps) ==
    \A i, j \in 1 .. Len(steps) : i < j => Before(steps[i].do.op, steps[j].do.op)

\* The steps that a lookup decides on.
Decided == {"CreateRelationship", "AddToRelationship", "RemoveRelationship"}

\* A lookup decides on the step that is taken next.
DecidedNext(steps) ==
    steps # << >> => \A step \in Ahead(Tail(steps)) : step.do.op \notin Decided

\* The scope is in the relationship that the plan leaves.
LeavesOwn(srv, s, steps) ==
    \A step \in Ahead(steps) : Does(step, "RemoveFromRelationship") =>
        RelationshipsOf(srv, s) = {step.do.arg}

\* The server is still as the lookup found it.
AsFound(srv, s, steps) ==
    steps # << >> =>
        /\ ~Does(Head(steps), "AddToRelationship")
        /\ Does(Head(steps), "CreateRelationship") =>
             srv.rels[Head(steps).do.arg.name] = None
        /\ Does(Head(steps), "RemoveRelationship") =>
             /\ srv.rels[Head(steps).do.arg] # None
             /\ srv.rels[Head(steps).do.arg].members = {}

\* A relationship of the scope's own lists it, or is about to be removed.
OwnListed(srv, s, steps, owner) ==
    \A n \in Names : owner[n] = s /\ srv.rels[n] # None =>
        \/ Lists(srv, n, s)
        \/ \E step \in Ahead(steps) :
             /\ step.do.op \in {"CleanupRelationship", "RemoveRelationship"}
             /\ step.do.arg = n

\* The relationships that are left are the scope's own.
LeavesOwned(s, steps, owner) ==
    \A step \in Ahead(steps) : step.do.op \in Leaves =>
        step.do.arg \in Names /\ owner[step.do.arg] = s

LeavesAhead(steps) == \E step \in Ahead(steps) : Does(step, "RemoveFromRelationship")
JoinsAhead(steps) == \E step \in Ahead(steps) : step.do.op \in Joins

\* A scope that joins a relationship, or that is asked to be in none, is in none
\* or leaves the one it is in;
Parts(srv, s, steps, desired) ==
    desired.failover = None \/ JoinsAhead(steps) =>
        RelationshipsOf(srv, s) = {} \/ LeavesAhead(steps)

\* one that is asked to be in one joins it, or is in it and need only be tuned;
Arrives(srv, s, steps, desired) ==
    desired.failover # None =>
        \/ JoinsAhead(steps)
        \/ /\ JoinedAsAsked(srv, s, desired.failover.name, desired)
           /\ \A step \in Ahead(steps) : step.do.op \notin Leaves
           /\ \/ srv.rels[desired.failover.name].tuning = desired.failover.tuning
              \/ \E step \in Ahead(steps) : Does(step, "TuneRelationship")

\* and the partner is told at the end of all that is done.
Follows(srv, s, steps, desired) ==
    /\ desired.failover # None =>
         IF steps = << >> THEN s \in srv.synced
         ELSE \E step \in Ahead(steps) : Does(step, "Replicate")
    /\ \A step \in Ahead(steps) :
         /\ Does(step, "Replicate") => desired.failover # None
         /\ step.do.op \in {"RemoveRouter", "RemoveBootHost", "RemoveBootFile"} =>
              "notFound" \in step.tolerates

\* What the plans of all writes have in common,
Fitting(srv, s, steps, owner) ==
    /\ InOrder(steps) /\ DecidedNext(steps) /\ LooksAfterLeaving(steps)
    /\ LeavesOwn(srv, s, steps) /\ AsFound(srv, s, steps)
    /\ OwnListed(srv, s, steps, owner) /\ LeavesOwned(s, steps, owner)

\* those of a create or an update,
WriteFits(srv, s, steps, desired, owner) ==
    /\ Fitting(srv, s, steps, owner)
    /\ RangesFit(Base(srv.scopes[s], steps), steps)
    /\ ExclusionsFit(Base(srv.scopes[s], steps), steps)
    /\ Parts(srv, s, steps, desired) /\ Arrives(srv, s, steps, desired)
    /\ Follows(srv, s, steps, desired)

\* and those of a delete.
DeleteFits(srv, s, steps, owner) ==
    /\ Fitting(srv, s, steps, owner)
    /\ \A step \in Ahead(steps) :
         /\ Does(step, "RemoveExclusions") => "notFound" \in step.tolerates
         /\ Does(step, "RemoveScope") => Exists(srv, s)

\* A scope that nobody writes is absent or readable, its partner has it as it is,
\* and its relationships list it.
Rested(srv, s, owner) ==
    /\ Reading(srv, s) \in {"ok", "missing"}
    /\ RelationshipsOf(srv, s) # {} => s \in srv.synced
    /\ OwnListed(srv, s, << >>, owner)

\* A relationship lists no scope but the one it is for,
MembersOwn(srv, owner) ==
    \A n \in Names, s \in Scopes : Lists(srv, n, s) => owner[n] = s

\* and no request for another scope names it.
RequestsOwn(owner) ==
    \A r \in Requests :
        pc[r] # "idle" /\ request[r].desired # None
          /\ request[r].desired.failover # None =>
        owner[request[r].desired.failover.name] = scope(r)

Writes(r) == pc[r] \in {"create", "converge", "delete"}

\* With nothing gone wrong, every write fits, and every scope without one rests.
AllFit(owner) ==
    /\ MembersOwn(server, owner)
    /\ \A r \in Requests :
         /\ pc[r] \in {"create", "converge"} =>
              WriteFits(server, scope(r), todo[r], request[r].desired, owner)
         /\ pc[r] = "delete" => DeleteFits(server, scope(r), todo[r], owner)
    /\ \A s \in Scopes :
         (\A r \in Requests : Writes(r) => scope(r) # s) => Rested(server, s, owner)

\* What has been answered to a write is no error, and is what it asked for.
RepliesFit ==
    \A r \in Requests : reply[r] # None /\ verb(r) # "GET" =>
        /\ reply[r].status \in {"ok", "gone", "not_found", "immutable_field"}
        /\ reply[r].status = "ok" => reply[r].body = request[r].desired

FInv(owner) == KInv /\ (faults = 0 => AllFit(owner) /\ RepliesFit)

-----------------------------------------------------------------------------
(* Places in a plan *)

\* The steps after the first, by their places.
LEMMA TailPlaces ==
    ASSUME NEW steps \in Seq(Step), steps # << >>
    PROVE  /\ Len(steps) \in Nat \ {0} /\ Head(steps) = steps[1]
           /\ Tail(steps) \in Seq(Step) /\ Len(Tail(steps)) = Len(steps) - 1
           /\ \A i \in 1 .. Len(Tail(steps)) :
                i + 1 \in 1 .. Len(steps) /\ Tail(steps)[i] = steps[i + 1]
           /\ \A i \in 1 .. Len(steps) : i # 1 =>
                i - 1 \in 1 .. Len(Tail(steps)) /\ steps[i] = Tail(steps)[i - 1]
  OBVIOUS

\* What may follow a step that a lookup or a batch leaves in the place of another.
LEMMA SuccessorBefore ==
    ASSUME NEW steps, NEW rest, Successor(steps, rest), rest # Tail(steps), NEW next,
           Before(Head(steps).do.op, next)
    PROVE  Before(Head(rest).do.op, next)
  <1>1. CASE Head(steps).do.op \in BatchOps /\ Head(rest).do.op = Head(steps).do.op
    BY <1>1
  <1>2. CASE /\ Head(steps).do.op = "SetupFailover"
             /\ Head(rest).do.op \in {"CreateRelationship", "AddToRelationship"}
    BY <1>2 DEF Before, Joins, BatchOps
  <1>3. CASE /\ Head(steps).do.op = "CleanupRelationship"
             /\ Head(rest).do.op = "RemoveRelationship"
    BY <1>3 DEF Before, Joins, BatchOps
  <1>4. QED
    BY <1>1, <1>2, <1>3 DEF Successor

\* What is left of a plan in order is in order.
LEMMA OrderSuccessor ==
    ASSUME NEW steps \in Seq(Step), NEW rest \in Seq(Step), steps # << >>,
           Successor(steps, rest), InOrder(steps), DecidedNext(steps)
    PROVE  /\ InOrder(rest) /\ DecidedNext(rest)
           /\ \A step \in Ahead(Tail(steps)) : Before(Head(steps).do.op, step.do.op)
  <1>1. /\ Len(steps) \in Nat \ {0} /\ Head(steps) = steps[1]
        /\ Len(Tail(steps)) = Len(steps) - 1
        /\ \A i \in 1 .. Len(Tail(steps)) :
             i + 1 \in 1 .. Len(steps) /\ Tail(steps)[i] = steps[i + 1]
    BY TailPlaces
  <1>2. \A i \in 1 .. Len(Tail(steps)) : Before(Head(steps).do.op, Tail(steps)[i].do.op)
    BY <1>1 DEF InOrder
  <1>3. InOrder(Tail(steps))
    <2>1. SUFFICES ASSUME NEW i \in 1 .. Len(Tail(steps)), NEW j \in 1 .. Len(Tail(steps)),
                          i < j
                   PROVE  Before(Tail(steps)[i].do.op, Tail(steps)[j].do.op)
      BY DEF InOrder
    <2>2. /\ i + 1 \in 1 .. Len(steps) /\ j + 1 \in 1 .. Len(steps) /\ i + 1 < j + 1
          /\ Tail(steps)[i] = steps[i + 1] /\ Tail(steps)[j] = steps[j + 1]
      BY <1>1, <2>1
    <2>3. QED
      BY <2>2 DEF InOrder
  <1>4. \A step \in Ahead(Tail(steps)) :
          step.do.op \notin Decided /\ Before(Head(steps).do.op, step.do.op)
    BY <1>2 DEF Ahead, DecidedNext
  <1>5. CASE rest = Tail(steps)
    <2>1. rest # << >> => Ahead(Tail(rest)) \subseteq Ahead(rest)
      BY AheadHead
    <2>2. QED
      BY <1>3, <1>4, <1>5, <2>1 DEF DecidedNext
  <1>6. CASE rest # Tail(steps)
    <2>1. rest # << >> /\ Tail(rest) = Tail(steps)
      BY <1>6 DEF Successor
    <2>2. /\ Len(rest) \in Nat \ {0} /\ Head(rest) = rest[1]
          /\ Len(Tail(rest)) = Len(rest) - 1
          /\ \A i \in 1 .. Len(rest) : i # 1 =>
               i - 1 \in 1 .. Len(Tail(rest)) /\ rest[i] = Tail(rest)[i - 1]
      BY <2>1, TailPlaces
    <2>3. \A i \in 1 .. Len(Tail(steps)) : Before(Head(rest).do.op, Tail(steps)[i].do.op)
      BY <1>2, <1>6, SuccessorBefore
    <2>4. InOrder(rest)
      <3>1. SUFFICES ASSUME NEW i \in 1 .. Len(rest), NEW j \in 1 .. Len(rest), i < j
                     PROVE  Before(rest[i].do.op, rest[j].do.op)
        BY DEF InOrder
      <3>2. j # 1 /\ j - 1 \in 1 .. Len(Tail(rest)) /\ rest[j] = Tail(rest)[j - 1]
        BY <2>2, <3>1
      <3>3. CASE i = 1
        BY <2>1, <2>2, <2>3, <3>2, <3>3
      <3>4. CASE i # 1
        <4>1. /\ i - 1 \in 1 .. Len(Tail(rest)) /\ rest[i] = Tail(rest)[i - 1]
              /\ i - 1 < j - 1
          BY <2>2, <3>1, <3>4
        <4>2. QED
          BY <1>3, <2>1, <3>2, <4>1 DEF InOrder
      <3>5. QED
        BY <3>3, <3>4
    <2>5. QED
      BY <1>4, <2>1, <2>4 DEF DecidedNext
  <1>7. QED
    BY <1>4, <1>5, <1>6

\* The ranges ahead still fit when the first step has been taken.
LEMMA RangesFitAdvance ==
    ASSUME NEW base \in ScopeConfig, NEW steps \in Seq(Step), NEW rest \in Seq(Step),
           NEW c, steps # << >>, Advance(steps, c, rest), RangesFit(base, steps)
    PROVE  RangesFit(Applied(base, c), rest)
  <1>1. /\ Len(steps) \in Nat \ {0} /\ Head(steps) = steps[1]
        /\ Len(Tail(steps)) = Len(steps) - 1
        /\ \A i \in 1 .. Len(Tail(steps)) :
             i + 1 \in 1 .. Len(steps) /\ Tail(steps)[i] = steps[i + 1]
    BY TailPlaces
  <1>2. Applied(base, c).range = IF c.op = "SetRange" THEN c.arg ELSE base.range
    BY AppliedFields
  <1>3. Head(steps).do.op = "SetRange" => c = Head(steps).do /\ rest = Tail(steps)
    BY AdvanceKinds DEF BatchOps, LookupOps
  <1>4. CASE rest = Tail(steps)
    <2>1. SUFFICES ASSUME NEW i \in 1 .. Len(Tail(steps)), Does(Tail(steps)[i], "SetRange")
                   PROVE  IF i = 1
                          THEN Accepted(Applied(base, c).range, Tail(steps)[i].do.arg)
                          ELSE /\ Does(Tail(steps)[i - 1], "SetRange")
                               /\ Accepted(Tail(steps)[i - 1].do.arg, Tail(steps)[i].do.arg)
      BY <1>4 DEF RangesFit
    <2>2. /\ i \in Nat \ {0} /\ i + 1 \in 1 .. Len(steps) /\ i + 1 # 1
          /\ (i + 1) - 1 = i /\ i \in 1 .. Len(steps)
          /\ Tail(steps)[i] = steps[i + 1]
      BY <1>1
    <2>3. /\ Does(steps[i], "SetRange")
          /\ Accepted(steps[i].do.arg, steps[i + 1].do.arg)
      BY <2>1, <2>2 DEF RangesFit
    <2>4. CASE i = 1
      <3>1. c = steps[1].do /\ c.op = "SetRange"
        BY <1>1, <1>3, <2>3, <2>4 DEF Does
      <3>2. QED
        BY <1>2, <2>2, <2>3, <2>4, <3>1
    <2>5. CASE i # 1
      <3>1. i - 1 \in 1 .. Len(Tail(steps)) /\ Tail(steps)[i - 1] = steps[i]
        BY <1>1, <2>2, <2>5
      <3>2. QED
        BY <2>2, <2>3, <2>5, <3>1
    <2>6. QED
      BY <2>4, <2>5
  <1>5. CASE rest # Tail(steps)
    <2>1. /\ rest # << >> /\ Tail(rest) = Tail(steps)
          /\ Head(steps).do.op # "SetRange" /\ Head(rest).do.op # "SetRange"
      BY <1>3, <1>5, AdvanceKinds DEF BatchOps, LookupOps
    <2>2. SUFFICES ASSUME NEW i \in 1 .. Len(rest), Does(rest[i], "SetRange")
                   PROVE  IF i = 1 THEN Accepted(Applied(base, c).range, rest[i].do.arg)
                          ELSE /\ Does(rest[i - 1], "SetRange")
                               /\ Accepted(rest[i - 1].do.arg, rest[i].do.arg)
      BY DEF RangesFit
    <2>3. /\ Head(rest) = rest[1] /\ Len(rest) \in Nat \ {0}
          /\ Len(Tail(rest)) = Len(rest) - 1
          /\ \A j \in 1 .. Len(rest) : j # 1 =>
               j - 1 \in 1 .. Len(Tail(rest)) /\ rest[j] = Tail(rest)[j - 1]
      BY <2>1, TailPlaces
    <2>4. i # 1
      BY <2>1, <2>2, <2>3 DEF Does
    <2>5. /\ i \in 1 .. Len(steps) /\ i \in Nat /\ (i - 1) + 1 = i
          /\ rest[i] = steps[i]
      <3>1. i - 1 \in 1 .. Len(Tail(steps)) /\ rest[i] = Tail(steps)[i - 1]
        BY <2>1, <2>3, <2>4
      <3>2. /\ (i - 1) + 1 \in 1 .. Len(steps)
            /\ Tail(steps)[i - 1] = steps[(i - 1) + 1]
        BY <1>1, <3>1
      <3>3. i \in Nat /\ (i - 1) + 1 = i
        BY <2>3
      <3>4. QED
        BY <3>1, <3>2, <3>3
    <2>6. /\ Does(steps[i - 1], "SetRange")
          /\ Accepted(steps[i - 1].do.arg, steps[i].do.arg)
      BY <2>2, <2>4, <2>5 DEF RangesFit
    <2>7. i - 1 # 1
      BY <1>1, <2>1, <2>6 DEF Does
    <2>8. i - 1 \in 1 .. Len(rest) /\ rest[i - 1] = steps[i - 1]
      <3>1. i - 1 \in 1 .. Len(rest)
        BY <2>4, <2>5, <2>3
      <3>2. /\ (i - 1) - 1 \in 1 .. Len(Tail(rest))
            /\ rest[i - 1] = Tail(rest)[(i - 1) - 1]
        BY <2>3, <2>7, <3>1
      <3>3. ((i - 1) - 1) + 1 = i - 1
        BY <2>5
      <3>4. QED
        BY <1>1, <2>1, <3>1, <3>2, <3>3
    <2>9. QED
      BY <2>4, <2>5, <2>6, <2>8
  <1>6. QED
    BY <1>4, <1>5

\* The exclusions ahead still fit when the first step, or a part of it, is taken.
LEMMA ExclusionsFitAdvance ==
    ASSUME NEW base \in ScopeConfig, NEW steps \in Seq(Step), NEW rest \in Seq(Step),
           NEW c, steps # << >>, Advance(steps, c, rest),
           Head(steps).do.op \in WritingOps, ExclusionsFit(base, steps),
           \A step \in Ahead(Tail(steps)) : Before(Head(steps).do.op, step.do.op)
    PROVE  ExclusionsFit(Applied(base, c), rest)
  <1> DEFINE new == Applied(base, c)
             FitsOne(step, held) ==
               /\ Does(step, "AddExclusions") =>
                    \/ "alreadyExists" \in step.tolerates
                    \/ step.do.arg \cap held = {}
               /\ Does(step, "RemoveExclusions") =>
                    \/ "notFound" \in step.tolerates
                    \/ step.do.arg \subseteq held
  <1>1. new.exclusions = CASE c.op = "AddExclusion" -> base.exclusions \cup {c.arg}
                           [] c.op = "RemoveExclusion" -> base.exclusions \ {c.arg}
                           [] OTHER -> base.exclusions
    BY AppliedFields
  <1>2. /\ c.op = "AddExclusion" => Head(steps).do.op = "AddExclusions"
        /\ c.op = "RemoveExclusion" => Head(steps).do.op = "RemoveExclusions"
    BY AdvanceKinds DEF BatchOps, WritingOps
  <1>3. Ahead(steps) = {Head(steps)} \cup Ahead(Tail(steps))
    BY AheadHead
  <1>4. \A step \in Ahead(steps) : FitsOne(step, base.exclusions)
    BY DEF ExclusionsFit
  <1>5. ASSUME NEW step \in Ahead(Tail(steps)) PROVE FitsOne(step, new.exclusions)
    <2>1. FitsOne(step, base.exclusions)
      BY <1>3, <1>4, <1>5
    <2>2. /\ c.op = "AddExclusion" => ~Does(step, "AddExclusions")
          /\ c.op = "RemoveExclusion" => ~Does(step, "RemoveExclusions")
      BY <1>2, <1>5 DEF Before, BatchOps, Does
    <2> HIDE DEF new
    <2>3. CASE c.op = "AddExclusion"
      BY <1>1, <2>1, <2>2, <2>3
    <2>4. CASE c.op = "RemoveExclusion"
      BY <1>1, <2>1, <2>2, <2>4
    <2>5. CASE c.op \notin {"AddExclusion", "RemoveExclusion"}
      BY <1>1, <2>1, <2>5
    <2>6. QED
      BY <2>3, <2>4, <2>5
  <1>6. ASSUME rest # Tail(steps) PROVE FitsOne(Head(rest), new.exclusions)
    <2>1. CASE Head(steps).do.op \in BatchOps
      <3>1. /\ Head(rest).do.op = Head(steps).do.op
            /\ Head(rest).do.arg = Head(steps).do.arg \ {c.arg}
            /\ Head(rest).tolerates = Head(steps).tolerates
            /\ Head(steps).do.op = "AddExclusions" => c.op = "AddExclusion"
            /\ Head(steps).do.op = "RemoveExclusions" => c.op = "RemoveExclusion"
        BY <1>6, <2>1, AdvanceKinds
      <3>2. FitsOne(Head(steps), base.exclusions)
        BY <1>3, <1>4
      <3> HIDE DEF new
      <3>3. CASE Head(steps).do.op = "AddExclusions"
        BY <1>1, <3>1, <3>2, <3>3 DEF Does
      <3>4. CASE Head(steps).do.op = "RemoveExclusions"
        BY <1>1, <3>1, <3>2, <3>4 DEF Does
      <3>5. QED
        BY <2>1, <3>3, <3>4 DEF BatchOps
    <2>2. CASE Head(steps).do.op \notin BatchOps
      <3>1. Head(rest).do.op \in {"AddToRelationship", "CreateRelationship",
                                  "RemoveRelationship"}
        BY <1>6, <2>2, AdvanceKinds
      <3>2. QED
        BY <3>1 DEF Does
    <2>3. QED
      BY <2>1, <2>2
  <1>7. rest = Tail(steps) \/ Ahead(rest) = {Head(rest)} \cup Ahead(Tail(steps))
    BY AdvanceAhead
  <1>8. \A step \in Ahead(rest) : FitsOne(step, new.exclusions)
    <2> HIDE DEF new, FitsOne
    <2>1. QED
      BY <1>5, <1>6, <1>7
  <1>9. QED
    BY <1>8 DEF ExclusionsFit

-----------------------------------------------------------------------------
(* Plans that fit *)

\* A row of two parts in order, of which the second may follow the first.
LEMMA OrderConcat ==
    ASSUME NEW s \in Seq(Step), NEW t \in Seq(Step), InOrder(s), InOrder(t),
           \A a \in Ahead(s), b \in Ahead(t) : Before(a.do.op, b.do.op)
    PROVE  InOrder(s \o t)
  <1>1. /\ Len(s) \in Nat /\ Len(t) \in Nat /\ Len(s \o t) = Len(s) + Len(t)
        /\ \A i \in 1 .. Len(s) : (s \o t)[i] = s[i]
        /\ \A i \in 1 .. Len(s \o t) : i > Len(s) =>
             i - Len(s) \in 1 .. Len(t) /\ (s \o t)[i] = t[i - Len(s)]
    OBVIOUS
  <1>2. SUFFICES ASSUME NEW i \in 1 .. Len(s \o t), NEW j \in 1 .. Len(s \o t), i < j
                 PROVE  Before((s \o t)[i].do.op, (s \o t)[j].do.op)
    BY DEF InOrder
  <1>3. CASE j <= Len(s)
    <2>1. /\ i \in 1 .. Len(s) /\ j \in 1 .. Len(s)
          /\ (s \o t)[i] = s[i] /\ (s \o t)[j] = s[j]
      BY <1>1, <1>2, <1>3
    <2>2. QED
      BY <1>2, <2>1 DEF InOrder
  <1>4. CASE i <= Len(s) /\ j > Len(s)
    <2>1. /\ i \in 1 .. Len(s) /\ (s \o t)[i] = s[i]
          /\ j - Len(s) \in 1 .. Len(t) /\ (s \o t)[j] = t[j - Len(s)]
      BY <1>1, <1>2, <1>4
    <2>2. s[i] \in Ahead(s) /\ t[j - Len(s)] \in Ahead(t)
      BY <2>1 DEF Ahead
    <2>3. QED
      BY <2>1, <2>2
  <1>5. CASE i > Len(s)
    <2>1. /\ i - Len(s) \in 1 .. Len(t) /\ (s \o t)[i] = t[i - Len(s)]
          /\ j - Len(s) \in 1 .. Len(t) /\ (s \o t)[j] = t[j - Len(s)]
          /\ i - Len(s) < j - Len(s)
      BY <1>1, <1>2, <1>5
    <2>2. QED
      BY <2>1 DEF InOrder
  <1>6. QED
    BY <1>1, <1>2, <1>3, <1>4, <1>5

\* Writes of a scope's fields, in any order.
FieldOps == {"AddScope", "SetRange", "SetParams", "SetOptions", "RemoveRouter",
             "SetBootHost", "SetBootFile", "RemoveBootHost", "RemoveBootFile"}

\* Steps that set single fields are in order, whatever their number.
LEMMA FieldsInOrder ==
    ASSUME NEW steps, \A step \in Ahead(steps) : step.do.op \in FieldOps
    PROVE  InOrder(steps)
  <1>1. \A op \in FieldOps : \A next : Before(op, next)
    BY DEF FieldOps, Before, BatchOps, Joins
  <1>2. \A i \in 1 .. Len(steps) : steps[i].do.op \in FieldOps
    BY DEF Ahead
  <1>3. QED
    BY <1>1, <1>2 DEF InOrder

\* One step, or none, is in order.
LEMMA OneInOrder ==
    ASSUME NEW step
    PROVE  InOrder(<<step>>) /\ InOrder(<< >>)
  <1>1. Len(<<step>>) = 1 /\ Len(<< >>) = 0
    OBVIOUS
  <1>2. QED
    BY <1>1 DEF InOrder

\* Two steps are, of which one may follow the other.
LEMMA TwoInOrder ==
    ASSUME NEW a, NEW b, Before(a.do.op, b.do.op)
    PROVE  InOrder(<<a, b>>)
  <1>1. Len(<<a, b>>) = 2 /\ <<a, b>>[1] = a /\ <<a, b>>[2] = b
    OBVIOUS
  <1>2. SUFFICES ASSUME NEW i \in 1 .. 2, NEW j \in 1 .. 2, i < j
                 PROVE  Before(<<a, b>>[i].do.op, <<a, b>>[j].do.op)
    BY <1>1 DEF InOrder
  <1>3. i = 1 /\ j = 2
    BY <1>2
  <1>4. QED
    BY <1>1, <1>3

\* Each range of a transition fits the one before it.
LEMMA RangePartFits ==
    ASSUME NEW current \in Payload, NEW desired \in Payload
    PROVE  RangesFit(current, RangePart(current, desired))
  <1> DEFINE ranges == _range_transition_steps(current.range, desired.range)
             part == RangePart(current, desired)
  <1>1. current.range \in Range /\ desired.range \in Range
    BY DEF Payload
  <1>2. PICK steps : steps = ranges
    OBVIOUS
  <1>3. /\ steps \in Seq(Range)
        /\ \A i \in 1 .. Len(steps) :
             Accepted(HeldBefore(current.range, steps, i), steps[i])
    <2>1. steps = _range_transition_steps(current.range, desired.range)
      BY <1>2
    <2>2. \A have, want \in Range : \A row : row = _range_transition_steps(have, want) =>
            /\ row \in Seq(Range)
            /\ \A i \in 1 .. Len(row) : Accepted(HeldBefore(have, row, i), row[i])
      BY RangeStepsAccepted
    <2> HIDE DEF ranges
    <2>3. QED
      BY <1>1, <2>1, <2>2
  <1>4. part = [i \in 1 .. Len(steps) |-> Call("SetRange", steps[i])]
    BY <1>2 DEF RangePart, range_commands
  <1> HIDE DEF ranges, part
  <1>5. Len(steps) \in Nat /\ Len(part) = Len(steps)
    BY <1>3, <1>4
  <1>6. ASSUME NEW i \in 1 .. Len(steps)
        PROVE  Does(part[i], "SetRange") /\ part[i].do.arg = steps[i]
    <2>1. part[i] = Call("SetRange", steps[i])
      BY <1>4
    <2>2. QED
      BY <2>1 DEF Call, Does
  <1>7. SUFFICES ASSUME NEW i \in 1 .. Len(part)
                 PROVE  IF i = 1 THEN Accepted(current.range, part[i].do.arg)
                        ELSE /\ Does(part[i - 1], "SetRange")
                             /\ Accepted(part[i - 1].do.arg, part[i].do.arg)
    BY DEF RangesFit, part
  <1>8. i \in 1 .. Len(steps) /\ (i # 1 => i - 1 \in 1 .. Len(steps))
    BY <1>5
  <1>9. Accepted(IF i = 1 THEN current.range ELSE steps[i - 1], steps[i])
    BY <1>3, <1>8 DEF HeldBefore
  <1>10. CASE i = 1
    BY <1>6, <1>8, <1>9, <1>10
  <1>11. CASE i # 1
    BY <1>6, <1>8, <1>9, <1>11
  <1>12. QED
    BY <1>10, <1>11

\* Steps that write no range may follow.
LEMMA RangesFitConcat ==
    ASSUME NEW base, NEW s \in Seq(Step), NEW t \in Seq(Step), RangesFit(base, s),
           \A step \in Ahead(t) : ~Does(step, "SetRange")
    PROVE  RangesFit(base, s \o t)
  <1>1. /\ Len(s) \in Nat /\ Len(t) \in Nat /\ Len(s \o t) = Len(s) + Len(t)
        /\ \A i \in 1 .. Len(s) : (s \o t)[i] = s[i]
        /\ \A i \in 1 .. Len(s \o t) : i > Len(s) =>
             i - Len(s) \in 1 .. Len(t) /\ (s \o t)[i] = t[i - Len(s)]
    OBVIOUS
  <1>2. SUFFICES ASSUME NEW i \in 1 .. Len(s \o t), Does((s \o t)[i], "SetRange")
                 PROVE  IF i = 1 THEN Accepted(base.range, (s \o t)[i].do.arg)
                        ELSE /\ Does((s \o t)[i - 1], "SetRange")
                             /\ Accepted((s \o t)[i - 1].do.arg, (s \o t)[i].do.arg)
    BY DEF RangesFit
  <1>3. i \in 1 .. Len(s)
    <2>1. SUFFICES ASSUME i > Len(s) PROVE FALSE
      BY <1>1
    <2>2. (s \o t)[i] \in Ahead(t)
      BY <1>1, <2>1 DEF Ahead
    <2>3. QED
      BY <1>2, <2>2
  <1>4. (s \o t)[i] = s[i] /\ (i # 1 => i - 1 \in 1 .. Len(s) /\ (s \o t)[i - 1] = s[i - 1])
    BY <1>1, <1>3
  <1>5. QED
    BY <1>2, <1>3, <1>4 DEF RangesFit

\* The exclusion commands remove what is there and add what is not.
LEMMA ExclusionPartFits ==
    ASSUME NEW current \in Payload, NEW desired \in Payload,
           NEW part, part = exclusion_commands(current, desired)
    PROVE  InOrder(part) /\ ExclusionsFit(current, part)
  <1> DEFINE gone == current.exclusions \ desired.exclusions
             new == desired.exclusions \ current.exclusions
             remove == Call("RemoveExclusions", gone)
             add == Call("AddExclusions", new)
             first == When(gone # {}, <<remove>>)
             second == When(new # {}, <<add>>)
  <1>1. part = first \o second
    BY DEF exclusion_commands
  <1>2. /\ remove.do.op = "RemoveExclusions" /\ remove.do.arg = gone
        /\ add.do.op = "AddExclusions" /\ add.do.arg = new
    BY DEF Call
  <1>3. <<remove>> \in Seq(Step) /\ <<add>> \in Seq(Step)
    BY ExclusionsType DEF Payload, PowerShellErrors
  <1> HIDE DEF remove, add
  <1>4. first \in Seq(Step) /\ second \in Seq(Step)
    BY <1>3, WhenType
  <1>5. Ahead(first) \subseteq {remove} /\ Ahead(second) \subseteq {add}
    BY AheadWhen, AheadOne
  <1>6. InOrder(first) /\ InOrder(second)
    BY OneInOrder DEF When
  <1>7. Before(remove.do.op, add.do.op)
    BY <1>2 DEF Before, BatchOps, Joins
  <1> HIDE DEF first, second
  <1>8. InOrder(part)
    BY <1>1, <1>4, <1>5, <1>6, <1>7, OrderConcat
  <1>9. Ahead(part) \subseteq {remove, add}
    <2>1. Ahead(first \o second) = Ahead(first) \cup Ahead(second)
      BY <1>4, AheadSteps
    <2>2. QED
      BY <1>1, <1>5, <2>1
  <1>10. ExclusionsFit(current, part)
    BY <1>2, <1>9 DEF ExclusionsFit, Does
  <1>11. QED
    BY <1>8, <1>10

\* The scope that is read is in the relationship asked for, no step takes it out,
\* and one tunes it if that is needed.
Stays(current, desired, steps) ==
    /\ current.failover # None
    /\ current.failover.name = desired.failover.name
    /\ current.failover.peer = desired.failover.peer
    /\ \A step \in Ahead(steps) : step.do.op \notin Leaves
    /\ \/ current.failover.tuning = desired.failover.tuning
       \/ \E step \in Ahead(steps) : Does(step, "TuneRelationship")

\* The failover commands leave the relationship the scope is in, if it is not to
\* be there, and join the one it is to be in, unless it is.
LEMMA FailoverPartFits ==
    ASSUME NEW current \in Payload, NEW desired \in Payload, Valid(desired),
           NEW part, part = _handle_failover_diff(current.failover, desired.failover)
    PROVE  /\ InOrder(part)
           /\ \A step \in Ahead(part) : step.do.op \notin Decided \cup {"Replicate"}
           /\ desired.failover = None \/ JoinsAhead(part) =>
                current.failover = None \/ LeavesAhead(part)
           /\ desired.failover # None => JoinsAhead(part) \/ Stays(current, desired, part)
  <1> DEFINE have == current.failover
             want == desired.failover
             set == Call("SetupFailover", want)
             leave == Call("RemoveFromRelationship", have.name)
             look == Call("CleanupRelationship", have.name)
             tune == Call("TuneRelationship", want)
             leaving == _remove_scope_from_failover(have.name)
             Same == have # None /\ have.name = want.name /\ have.peer = want.peer
  <1>1. /\ set.do.op = "SetupFailover" /\ leave.do.op = "RemoveFromRelationship"
        /\ look.do.op = "CleanupRelationship" /\ tune.do.op = "TuneRelationship"
    BY DEF Call
  <1>2. have \in Failover \cup {None} /\ want \in Failover \cup {None}
    BY DEF Payload
  <1>3. \/ part = << >> /\ want = None /\ have = None
        \/ part = << >> /\ want # None /\ Same /\ have.tuning = want.tuning
        \/ part = <<set>> /\ want # None /\ have = None
        \/ part = leaving /\ have # None /\ want = None
        \/ part = leaving \o <<set>> /\ have # None /\ want # None
        \/ part = <<tune>> /\ want # None /\ Same
    BY DEF _handle_failover_diff, _setup_failover, When
  <1>4. /\ leaving = <<leave, look>>
        /\ have # None => leaving \in Seq(Step) /\ Ahead(leaving) = {leave, look}
    BY <1>2, FailoverType, LeavingLooks DEF Failover, _remove_scope_from_failover
  <1>5. want # None => <<set>> \in Seq(Step)
    BY <1>2, FailoverType DEF _setup_failover
  <1>6. /\ Before(leave.do.op, look.do.op) /\ Before(leave.do.op, set.do.op)
        /\ Before(look.do.op, set.do.op)
    BY <1>1 DEF Before, BatchOps, Joins, Leaves
  <1>7. have = current.failover /\ want = desired.failover
    OBVIOUS
  <1> HIDE DEF have, want, set, leave, look, tune, leaving
  <1>8. Ahead(<<set>>) = {set} /\ Ahead(<<tune>>) = {tune} /\ Ahead(<< >>) = {}
    BY AheadOne, AheadEmpty
  <1>9. /\ InOrder(<<set>>) /\ InOrder(<<tune>>) /\ InOrder(<< >>) /\ InOrder(leaving)
    BY <1>4, <1>6, OneInOrder, TwoInOrder
  <1>10. /\ set.do.op \in Joins \ (Decided \cup {"Replicate"})
         /\ Does(leave, "RemoveFromRelationship") /\ Does(tune, "TuneRelationship")
         /\ tune.do.op \notin Joins \cup Leaves \cup Decided \cup {"Replicate"}
         /\ look.do.op \notin Joins \cup Decided \cup {"Replicate"}
         /\ leave.do.op \notin Joins \cup Decided \cup {"Replicate"}
    BY <1>1 DEF Does, Joins, Leaves, Decided
  <1> SUFFICES /\ InOrder(part)
               /\ \A step \in Ahead(part) : step.do.op \notin Decided \cup {"Replicate"}
               /\ want = None \/ JoinsAhead(part) => have = None \/ LeavesAhead(part)
               /\ want # None => JoinsAhead(part) \/ Stays(current, desired, part)
    BY <1>7
  <1>11. CASE part = << >> /\ want = None /\ have = None
    BY <1>8, <1>9, <1>11 DEF JoinsAhead
  <1>12. CASE part = << >> /\ want # None /\ Same /\ have.tuning = want.tuning
    BY <1>7, <1>8, <1>9, <1>12 DEF JoinsAhead, Stays
  <1>13. CASE part = <<set>> /\ want # None /\ have = None
    BY <1>8, <1>9, <1>10, <1>13 DEF JoinsAhead
  <1>14. CASE part = leaving /\ have # None /\ want = None
    BY <1>4, <1>9, <1>10, <1>14 DEF LeavesAhead
  <1>15. CASE part = leaving \o <<set>> /\ have # None /\ want # None
    <2>1. Ahead(leaving \o <<set>>) = {leave, look} \cup {set}
      <3>1. leaving \in Seq(Step) /\ <<set>> \in Seq(Step)
        BY <1>4, <1>5, <1>15
      <3>2. Ahead(leaving \o <<set>>) = Ahead(leaving) \cup Ahead(<<set>>)
        BY <3>1, AheadSteps
      <3>3. QED
        BY <1>4, <1>8, <1>15, <3>2
    <2>2. InOrder(leaving \o <<set>>)
      BY <1>4, <1>5, <1>6, <1>8, <1>9, <1>15, OrderConcat
    <2>3. QED
      BY <1>10, <1>15, <2>1, <2>2 DEF JoinsAhead, LeavesAhead
  <1>16. CASE part = <<tune>> /\ want # None /\ Same
    BY <1>7, <1>8, <1>9, <1>10, <1>16 DEF JoinsAhead, Stays
  <1>17. QED
    BY <1>3, <1>11, <1>12, <1>13, <1>14, <1>15, <1>16

\* What a plan of _converge_scope finds in its way, read off the state it was made
\* from.
LEMMA ConvergeFits ==
    ASSUME NEW current \in Payload, NEW desired \in Payload, Valid(desired),
           NEW plan, plan = converge_plan(current, desired)
    PROVE  /\ InOrder(plan)
           /\ \A step \in Ahead(plan) : step.do.op \notin Decided
           /\ RangesFit(current, plan) /\ ExclusionsFit(current, plan)
           /\ desired.failover = None \/ JoinsAhead(plan) =>
                current.failover = None \/ LeavesAhead(plan)
           /\ desired.failover # None => JoinsAhead(plan) \/ Stays(current, desired, plan)
           /\ desired.failover # None /\ plan # << >> =>
                \E step \in Ahead(plan) : Does(step, "Replicate")
           /\ \A step \in Ahead(plan) :
                /\ Does(step, "Replicate") => desired.failover # None
                /\ step.do.op \in {"RemoveRouter", "RemoveBootHost", "RemoveBootFile"} =>
                     "notFound" \in step.tolerates
  <1> DEFINE R == RangePart(current, desired)
             P == ParamsPart(current, desired)
             O == options_commands(current, desired)
             B == boot_commands(current, desired)
             E == exclusion_commands(current, desired)
             F == _handle_failover_diff(current.failover, desired.failover)
             copy == Call("Replicate", None)
             X == When(changes(current, desired) # << >> /\ desired.failover # None,
                       _replicate_failover)
             A == R \o P \o O \o B
             C == A \o E
             Failovers == {"SetupFailover", "RemoveFromRelationship",
                           "CleanupRelationship", "TuneRelationship"}
             Removals == {"RemoveRouter", "RemoveBootHost", "RemoveBootFile"}
  <1>1. /\ R \in Seq(Step) /\ P \in Seq(Step) /\ O \in Seq(Step) /\ B \in Seq(Step)
        /\ E \in Seq(Step) /\ F \in Seq(Step) /\ X \in Seq(Step)
    BY PartsType, FailoverType, WhenType DEF RangePart, ParamsPart
  <1>2. plan = C \o F \o X /\ changes(current, desired) = C \o F
    BY DEF converge_plan, changes, RangePart, ParamsPart
  <1>3. /\ \A step \in Ahead(R) : step.do.op = "SetRange"
        /\ \A step \in Ahead(P) : step.do.op = "SetParams"
    BY RangePartLeads, ParamsPartLeads DEF Does
  <1>4. /\ \A step \in Ahead(O) :
             /\ step.do.op \in {"SetOptions", "RemoveRouter"}
             /\ step.do.op \in Removals => "notFound" \in step.tolerates
        /\ \A step \in Ahead(B) :
             /\ step.do.op \in {"SetBootHost", "SetBootFile",
                                "RemoveBootHost", "RemoveBootFile"}
             /\ step.do.op \in Removals => "notFound" \in step.tolerates
    BY OptionsPartLeads, BootPartLeads DEF Does
  <1>5. \A step \in Ahead(E) : step.do.op \in {"AddExclusions", "RemoveExclusions"}
    BY ExclusionPartLeads
  <1>6. \A step \in Ahead(F) : step.do.op \in Failovers
    BY FailoverPartLeads DEF Payload
  <1>7. /\ InOrder(F)
        /\ \A step \in Ahead(F) : step.do.op \notin Decided \cup {"Replicate"}
        /\ desired.failover = None \/ JoinsAhead(F) =>
             current.failover = None \/ LeavesAhead(F)
        /\ desired.failover # None => JoinsAhead(F) \/ Stays(current, desired, F)
    BY FailoverPartFits
  <1>8. InOrder(E) /\ ExclusionsFit(current, E)
    BY ExclusionPartFits
  <1>9. RangesFit(current, R)
    BY RangePartFits
  <1>10. copy.do.op = "Replicate" /\ _replicate_failover = <<copy>>
    BY DEF Call, _replicate_failover
  <1> HIDE DEF copy
  <1>11. /\ InOrder(X)
         /\ Ahead(X) = IF C \o F # << >> /\ desired.failover # None THEN {copy} ELSE {}
    BY <1>2, <1>10, OneInOrder, AheadOne, AheadWhen DEF When
  <1>12. C \o F = << >> => X = << >>
    BY <1>2 DEF When
  <1> HIDE DEF R, P, O, B, E, F, X
  <1>13. /\ A \in Seq(Step) /\ Ahead(A) = Ahead(R) \cup Ahead(P) \cup Ahead(O) \cup Ahead(B)
         /\ RangesFit(current, A)
    <2>1. R \o P \in Seq(Step) /\ Ahead(R \o P) = Ahead(R) \cup Ahead(P)
      BY <1>1, AheadSteps
    <2>2. RangesFit(current, R \o P)
      BY <1>1, <1>3, <1>9, RangesFitConcat DEF Does
    <2>3. R \o P \o O \in Seq(Step) /\ Ahead(R \o P \o O) = Ahead(R \o P) \cup Ahead(O)
      BY <1>1, <2>1, AheadSteps
    <2>4. RangesFit(current, R \o P \o O)
      BY <1>1, <1>4, <2>1, <2>2, RangesFitConcat DEF Does
    <2>5. A \in Seq(Step) /\ Ahead(A) = Ahead(R \o P \o O) \cup Ahead(B)
      BY <1>1, <2>3, AheadSteps
    <2>6. RangesFit(current, A)
      BY <1>1, <1>4, <2>3, <2>4, RangesFitConcat DEF Does
    <2>7. QED
      BY <2>1, <2>3, <2>5, <2>6
  <1>14. \A step \in Ahead(A) : step.do.op \in FieldOps
    BY <1>3, <1>4, <1>13 DEF FieldOps
  <1> HIDE DEF A
  <1>15. C \in Seq(Step) /\ Ahead(C) = Ahead(A) \cup Ahead(E)
    BY <1>1, <1>13, AheadSteps
  <1>16. InOrder(C) /\ RangesFit(current, C)
    <2>1. \A a \in Ahead(A), b \in Ahead(E) : Before(a.do.op, b.do.op)
      BY <1>14 DEF FieldOps, Before, BatchOps, Joins
    <2>2. InOrder(A)
      BY <1>14, FieldsInOrder
    <2>3. InOrder(C)
      BY <1>1, <1>8, <1>13, <2>1, <2>2, OrderConcat
    <2>4. QED
      BY <1>1, <1>5, <1>13, <2>3, RangesFitConcat DEF Does
  <1> HIDE DEF C
  <1>17. C \o F \in Seq(Step) /\ Ahead(C \o F) = Ahead(C) \cup Ahead(F)
    BY <1>1, <1>15, AheadSteps
  <1>18. \A step \in Ahead(C) :
           /\ step.do.op \in FieldOps \cup {"AddExclusions", "RemoveExclusions"}
           /\ step.do.op \notin Joins \cup Leaves \cup Decided \cup {"Replicate"}
    BY <1>5, <1>14, <1>15 DEF FieldOps, Joins, Leaves, Decided
  <1>19. InOrder(C \o F) /\ RangesFit(current, C \o F)
    <2>1. \A a \in Ahead(C), b \in Ahead(F) : Before(a.do.op, b.do.op)
      BY <1>6, <1>18 DEF FieldOps, Before, BatchOps, Joins
    <2>2. InOrder(C \o F)
      BY <1>1, <1>7, <1>15, <1>16, <2>1, OrderConcat
    <2>3. QED
      BY <1>1, <1>6, <1>15, <1>16, <2>2, RangesFitConcat DEF Does
  <1>20. plan \in Seq(Step) /\ Ahead(plan) = Ahead(C) \cup Ahead(F) \cup Ahead(X)
    <2>1. C \o F \o X \in Seq(Step) /\ Ahead(C \o F \o X) = Ahead(C \o F) \cup Ahead(X)
      BY <1>1, <1>17, AheadSteps
    <2>2. QED
      BY <1>2, <1>17, <2>1
  <1>21. InOrder(plan) /\ RangesFit(current, plan)
    <2>1. \A a \in Ahead(C \o F), b \in Ahead(X) : Before(a.do.op, b.do.op)
      <3>1. SUFFICES ASSUME NEW a \in Ahead(C) \cup Ahead(F)
                     PROVE  Before(a.do.op, "Replicate")
        BY <1>10, <1>11, <1>17
      <3>2. a.do.op # "Replicate"
        BY <1>7, <1>18
      <3>3. QED
        BY <3>2 DEF Before, BatchOps, Joins, Leaves
    <2>2. InOrder(C \o F \o X)
      BY <1>1, <1>11, <1>17, <1>19, <2>1, OrderConcat
    <2>3. \A step \in Ahead(X) : ~Does(step, "SetRange")
      BY <1>10, <1>11 DEF Does
    <2>4. RangesFit(current, C \o F \o X)
      BY <1>1, <1>17, <1>19, <2>3, RangesFitConcat
    <2>5. QED
      BY <1>2, <2>2, <2>4
  <1>22. ExclusionsFit(current, plan)
    <2>1. \A step \in Ahead(plan) : step.do.op \in {"AddExclusions", "RemoveExclusions"} =>
            step \in Ahead(E)
      BY <1>6, <1>10, <1>11, <1>14, <1>15, <1>20 DEF FieldOps
    <2>2. QED
      BY <1>8, <2>1 DEF ExclusionsFit, Does
  <1>23. JoinsAhead(plan) <=> JoinsAhead(F)
    BY <1>10, <1>11, <1>18, <1>20 DEF JoinsAhead, Joins
  <1>24. LeavesAhead(F) => LeavesAhead(plan)
    BY <1>20 DEF LeavesAhead
  <1>25. Stays(current, desired, F) => Stays(current, desired, plan)
    BY <1>10, <1>11, <1>18, <1>20 DEF Stays, Leaves
  <1>26. \A step \in Ahead(plan) : step.do.op \notin Decided
    BY <1>7, <1>10, <1>11, <1>18, <1>20 DEF Decided
  <1>27. desired.failover # None /\ plan # << >> => copy \in Ahead(plan)
    <2>1. C \o F = << >> => C \o F \o X = << >>
      BY <1>12
    <2>2. QED
      BY <1>2, <1>11, <1>20, <2>1
  <1>28. ASSUME NEW step \in Ahead(plan)
         PROVE  /\ Does(step, "Replicate") => desired.failover # None
                /\ step.do.op \in Removals => "notFound" \in step.tolerates
    <2>1. step \in Ahead(R) \cup Ahead(P) \cup Ahead(O) \cup Ahead(B) \cup Ahead(E)
                     \cup Ahead(F) \cup Ahead(X)
      BY <1>13, <1>15, <1>20
    <2>2. step \in Ahead(X) => desired.failover # None /\ step.do.op = "Replicate"
      BY <1>10, <1>11
    <2>3. step.do.op = "Replicate" => step \in Ahead(X)
      BY <1>7, <1>18, <1>20
    <2>4. QED
      BY <1>3, <1>4, <1>5, <1>6, <2>1, <2>2, <2>3 DEF Does
  <1>29. QED
    BY <1>7, <1>10, <1>21, <1>22, <1>23, <1>24, <1>25, <1>26, <1>27, <1>28 DEF Does

\* A plan of create_scope tolerates an exclusion that is there, and takes nothing
\* away.
LEMMA CreateFits ==
    ASSUME NEW p \in Payload, Valid(p), NEW plan, plan = create_plan(p)
    PROVE  /\ InOrder(plan)
           /\ \A step \in Ahead(plan) :
                /\ step.do.op \notin Decided \cup Leaves \cup
                     {"SetRange", "RemoveExclusions", "RemoveRouter", "RemoveBootHost",
                      "RemoveBootFile"}
                /\ Does(step, "AddExclusions") => "alreadyExists" \in step.tolerates
           /\ p.failover # None =>
                JoinsAhead(plan) /\ \E step \in Ahead(plan) : Does(step, "Replicate")
           /\ p.failover = None =>
                ~JoinsAhead(plan) /\ \A step \in Ahead(plan) : ~Does(step, "Replicate")
  <1> DEFINE added == [mask |-> p.mask, range |-> p.range, params |-> p.params]
             add == Tolerant("AddScope", added, {"alreadyExists"})
             set == _set_options_command(p)
             host == Call("SetBootHost", p.next)
             file == Call("SetBootFile", p.file)
             exclude == Tolerant("AddExclusions", p.exclusions, {"alreadyExists"})
             join == Call("SetupFailover", p.failover)
             copy == Call("Replicate", None)
             S == <<add, set>>
             B == _set_boot_options_commands(p)
             E == When(p.exclusions # {}, <<exclude>>)
             F == When(p.failover # None, _setup_failover(p.failover) \o _replicate_failover)
  <1>1. plan = S \o B \o E \o F
    BY DEF create_plan
  <1>2. /\ add.do.op = "AddScope" /\ set.do.op = "SetOptions"
        /\ host.do.op = "SetBootHost" /\ file.do.op = "SetBootFile"
        /\ exclude.do.op = "AddExclusions" /\ exclude.tolerates = {"alreadyExists"}
        /\ join.do.op = "SetupFailover"
        /\ copy.do.op = "Replicate"
    BY DEF Call, Tolerant, _set_options_command
  <1>3. add \in Step /\ set \in Step
    <2>1. [op |-> "AddScope", arg |-> added] \in Cmdlet
      BY DEF Payload, Cmdlet
    <2>2. [op |-> "SetOptions", arg |-> [dns |-> p.dns, gateway |-> p.gateway]] \in Cmdlet
      BY DEF Payload, Cmdlet
    <2>3. QED
      BY <2>1, <2>2, CallType, TolerantType, ToleratedKinds DEF _set_options_command
  <1>4. B \in Seq(Step) /\ Ahead(B) \subseteq {host, file}
    <2>1. B = When(p.next # None, <<host, file>>)
      BY DEF _set_boot_options_commands
    <2>2. B \in Seq(Step)
      BY OptionsType
    <2> HIDE DEF host, file, B
    <2>3. Ahead(When(p.next # None, <<host, file>>)) \subseteq Ahead(<<host, file>>)
      BY AheadWhen
    <2>4. QED
      BY <2>1, <2>2, <2>3, AheadTwo
  <1>5. E \in Seq(Step) /\ Ahead(E) \subseteq {exclude} /\ InOrder(E)
    <2>1. <<exclude>> \in Seq(Step)
      BY ExclusionsType, ToleratedKinds DEF Payload
    <2> HIDE DEF exclude
    <2>2. InOrder(E)
      BY OneInOrder DEF When
    <2>3. QED
      BY <2>1, <2>2, WhenType, AheadWhen, AheadOne
  <1>6. /\ F \in Seq(Step) /\ InOrder(F)
        /\ Ahead(F) = IF p.failover # None THEN {join, copy} ELSE {}
    <2>1. CASE p.failover = None
      <3>1. F = << >>
        BY <2>1 DEF When
      <3> HIDE DEF join, copy, F
      <3>2. << >> \in Seq(Step) /\ InOrder(<< >>)
        BY DEF InOrder
      <3>3. QED
        BY <2>1, <3>1, <3>2, AheadEmpty
    <2>2. CASE p.failover # None
      <3>1. <<join>> \in Seq(Step) /\ <<copy>> \in Seq(Step)
        BY <2>2, FailoverType DEF Payload, _setup_failover, _replicate_failover
      <3>2. F = <<join>> \o <<copy>>
        BY <2>2 DEF When, _setup_failover, _replicate_failover
      <3>3. Before(join.do.op, copy.do.op)
        BY <1>2 DEF Before, BatchOps, Joins, Leaves
      <3> HIDE DEF join, copy, F
      <3>4. Ahead(<<join>>) = {join} /\ Ahead(<<copy>>) = {copy}
        BY AheadOne
      <3>5. /\ Ahead(<<join>> \o <<copy>>) = {join} \cup {copy}
            /\ <<join>> \o <<copy>> \in Seq(Step)
        BY <3>1, <3>4, AheadSteps
      <3>6. InOrder(<<join>> \o <<copy>>)
        BY <3>1, <3>3, <3>4, OneInOrder, OrderConcat
      <3>7. QED
        BY <2>2, <3>2, <3>5, <3>6
    <2>3. QED
      BY <2>1, <2>2
  <1> HIDE DEF add, set, host, file, exclude, join, copy, B, E, F
  <1>7. S \in Seq(Step) /\ Ahead(S) = {add, set}
    BY <1>3, AheadTwo
  <1> HIDE DEF S
  <1>8. S \o B \in Seq(Step) /\ Ahead(S \o B) \subseteq {add, set, host, file}
    <2>1. S \o B \in Seq(Step) /\ Ahead(S \o B) = {add, set} \cup Ahead(B)
      BY <1>4, <1>7, AheadSteps
    <2>2. QED
      BY <1>4, <2>1
  <1>9. InOrder(S \o B)
    <2>1. \A step \in Ahead(S \o B) : step.do.op \in FieldOps
      BY <1>2, <1>8 DEF FieldOps
    <2>2. QED
      BY <2>1, FieldsInOrder
  <1>10. /\ S \o B \o E \in Seq(Step)
         /\ Ahead(S \o B \o E) \subseteq {add, set, host, file, exclude}
    <2>1. S \o B \o E \in Seq(Step) /\ Ahead(S \o B \o E) = Ahead(S \o B) \cup Ahead(E)
      BY <1>5, <1>8, AheadSteps
    <2>2. QED
      BY <1>5, <1>8, <2>1
  <1>11. InOrder(S \o B \o E)
    <2>1. \A a \in Ahead(S \o B), b \in Ahead(E) : Before(a.do.op, b.do.op)
      BY <1>2, <1>8 DEF Before, BatchOps, Joins
    <2>2. QED
      BY <1>5, <1>8, <1>9, <2>1, OrderConcat
  <1>12. /\ plan \in Seq(Step) /\ Ahead(plan) = Ahead(S \o B \o E) \cup Ahead(F)
    <2>1. /\ S \o B \o E \o F \in Seq(Step)
          /\ Ahead(S \o B \o E \o F) = Ahead(S \o B \o E) \cup Ahead(F)
      BY ZenonT(30), <1>6, <1>10, AheadSteps
    <2>2. QED
      BY <1>1, <2>1
  <1>13. InOrder(plan)
    <2>1. \A a \in Ahead(S \o B \o E), b \in Ahead(F) : Before(a.do.op, b.do.op)
      BY <1>2, <1>6, <1>10 DEF Before, BatchOps, Joins
    <2>2. InOrder(S \o B \o E \o F)
      BY <1>6, <1>10, <1>11, <2>1, OrderConcat
    <2>3. QED
      BY <1>1, <2>2
  <1>14. Ahead(plan) \subseteq {add, set, host, file, exclude} \cup Ahead(F)
    BY <1>10, <1>12
  <1>15. \A step \in Ahead(plan) :
           /\ step.do.op \notin Decided \cup Leaves \cup
                {"SetRange", "RemoveExclusions", "RemoveRouter", "RemoveBootHost",
                 "RemoveBootFile"}
           /\ Does(step, "AddExclusions") => "alreadyExists" \in step.tolerates
    BY <1>2, <1>6, <1>14 DEF Decided, Leaves, Does
  <1>16. p.failover # None =>
           JoinsAhead(plan) /\ \E step \in Ahead(plan) : Does(step, "Replicate")
    BY <1>2, <1>6, <1>12 DEF JoinsAhead, Joins, Does
  <1>17. p.failover = None =>
           ~JoinsAhead(plan) /\ \A step \in Ahead(plan) : ~Does(step, "Replicate")
    BY <1>2, <1>6, <1>14 DEF JoinsAhead, Joins, Does
  <1>18. QED
    BY <1>13, <1>15, <1>16, <1>17

\* A plan of delete_scope tolerates an exclusion that is gone, and leaves no
\* relationship but the one the scope was read to be in.
LEMMA DeletePlanFits ==
    ASSUME NEW current \in Payload, NEW plan, plan = delete_plan(current)
    PROVE  /\ InOrder(plan)
           /\ \A step \in Ahead(plan) :
                /\ step.do.op \notin Decided \cup Joins
                /\ step.do.op \in Leaves =>
                     current.failover # None /\ step.do.arg = current.failover.name
                /\ Does(step, "RemoveExclusions") => "notFound" \in step.tolerates
  <1> DEFINE n == current.failover.name
             leave == Call("RemoveFromRelationship", n)
             look == Call("CleanupRelationship", n)
             include == Tolerant("RemoveExclusions", current.exclusions, PowerShellErrors)
             drop == Call("RemoveScope", None)
             leaving == _remove_scope_from_failover(n)
             L == When(current.failover # None, leaving)
             E == When(current.exclusions # {}, <<include>>)
             D == <<drop>>
  <1>1. plan = L \o E \o D
    BY DEF delete_plan
  <1>2. /\ leave.do.op = "RemoveFromRelationship" /\ leave.do.arg = n
        /\ look.do.op = "CleanupRelationship" /\ look.do.arg = n
        /\ include.do.op = "RemoveExclusions" /\ "notFound" \in include.tolerates
        /\ drop.do.op = "RemoveScope"
    BY DEF Call, Tolerant, PowerShellErrors, CmdletErrors
  <1>3. /\ leaving = <<leave, look>>
        /\ current.failover # None => leaving \in Seq(Step) /\ Ahead(leaving) = {leave, look}
    BY FailoverType, LeavingLooks DEF Payload, Failover, _remove_scope_from_failover
  <1>4. <<include>> \in Seq(Step)
    BY ExclusionsType, ToleratedKinds DEF Payload
  <1>5. D \in Seq(Step)
    <2>1. [op |-> "RemoveScope", arg |-> None] \in Cmdlet
      BY DEF Cmdlet
    <2>2. QED
      BY <2>1, CallType
  <1>6. Before(leave.do.op, look.do.op)
    BY <1>2 DEF Before, BatchOps, Joins, Leaves
  <1> HIDE DEF leave, look, include, drop, leaving
  <1>7. InOrder(L) /\ InOrder(E) /\ InOrder(D)
    BY <1>3, <1>6, OneInOrder, TwoInOrder DEF When
  <1>8. /\ L \in Seq(Step) /\ E \in Seq(Step)
        /\ Ahead(L) = IF current.failover # None THEN {leave, look} ELSE {}
        /\ Ahead(E) = IF current.exclusions # {} THEN {include} ELSE {}
        /\ Ahead(D) = {drop}
    BY <1>3, <1>4, WhenType, AheadWhen, AheadOne
  <1> HIDE DEF L, E, D
  <1>9. L \o E \in Seq(Step) /\ Ahead(L \o E) = Ahead(L) \cup Ahead(E)
    BY <1>8, AheadSteps
  <1>10. InOrder(L \o E)
    <2>1. \A a \in Ahead(L), b \in Ahead(E) : Before(a.do.op, b.do.op)
      BY <1>2, <1>8 DEF Before, BatchOps, Joins, Leaves
    <2>2. QED
      BY <1>7, <1>8, <2>1, OrderConcat
  <1>11. Ahead(plan) = Ahead(L) \cup Ahead(E) \cup Ahead(D)
    <2>1. Ahead(L \o E \o D) = Ahead(L \o E) \cup Ahead(D)
      BY <1>5, <1>9, AheadSteps
    <2>2. QED
      BY <1>1, <1>9, <2>1
  <1>12. InOrder(plan)
    <2>1. \A a \in Ahead(L \o E), b \in Ahead(D) : Before(a.do.op, b.do.op)
      BY <1>2, <1>8, <1>9 DEF Before, BatchOps, Joins, Leaves
    <2>2. InOrder(L \o E \o D)
      BY <1>5, <1>7, <1>9, <1>10, <2>1, OrderConcat
    <2>3. QED
      BY <1>1, <2>2
  <1>13. QED
    BY <1>2, <1>8, <1>11, <1>12 DEF Decided, Joins, Leaves, Does

-----------------------------------------------------------------------------
(* Cmdlets that find what they need *)

\* What the server answers to the cmdlets of a scope and of its relationships.
LEMMA RunSucceeds ==
    ASSUME NEW srv \in Server, NEW s \in Scopes, NEW c \in Cmdlet
    PROVE  /\ c.op = "AddScope" /\ ~Exists(srv, s) => Run(srv, s, c).outcome = "ok"
           /\ Exists(srv, s) =>
                /\ c.op \in {"SetParams", "SetOptions", "SetBootHost", "SetBootFile",
                             "RemoveScope"} => Run(srv, s, c).outcome = "ok"
                /\ c.op = "SetRange" /\ Accepted(srv.scopes[s].range, c.arg) =>
                     Run(srv, s, c).outcome = "ok"
                /\ c.op \in {"RemoveRouter", "RemoveBootHost", "RemoveBootFile"} =>
                     Run(srv, s, c).outcome \in {"ok", "notFound"}
                /\ c.op = "AddExclusion" =>
                     \/ Run(srv, s, c).outcome = "ok"
                     \/ Run(srv, s, c).outcome = "alreadyExists" /\ c.arg \in srv.scopes[s].exclusions
                /\ c.op = "RemoveExclusion" =>
                     \/ Run(srv, s, c).outcome = "ok"
                     \/ Run(srv, s, c).outcome = "notFound" /\ c.arg \notin srv.scopes[s].exclusions
           /\ c.op = "RemoveExclusion" => Run(srv, s, c).outcome \in {"ok", "notFound"}
  <1> DEFINE outcome == Run(srv, s, c).outcome
  <1>1. c.op = "AddScope" /\ ~Exists(srv, s) => outcome = "ok"
    BY DEF Run, RelationshipOps, Configure, Answers
  <1>2. ASSUME Exists(srv, s), c.op \notin RelationshipOps \cup {"AddScope"}
        PROVE  outcome = RunOnScope(srv, s, c).outcome
    BY <1>2 DEF Run
  <1>3. ASSUME Exists(srv, s), c.op \in {"SetParams", "SetOptions", "SetBootHost",
                                         "SetBootFile", "RemoveScope"}
        PROVE  outcome = "ok"
    BY <1>2, <1>3 DEF RelationshipOps, RunOnScope, SetOptions, RemoveScope, Configure,
                      Answers
  <1>4. ASSUME Exists(srv, s), c.op = "SetRange", Accepted(srv.scopes[s].range, c.arg)
        PROVE  outcome = "ok"
    <2>1. outcome = SetRange(srv, s, c.arg).outcome
      BY <1>2, <1>4 DEF RelationshipOps, RunOnScope
    <2>2. QED
      BY <1>4, <2>1 DEF SetRange, Accepted, Configure, Answers
  <1>5. ASSUME Exists(srv, s), c.op \in {"RemoveRouter", "RemoveBootHost", "RemoveBootFile"}
        PROVE  outcome \in {"ok", "notFound"}
    BY <1>2, <1>5 DEF RelationshipOps, RunOnScope, RemoveRouter, RemoveBootHost,
                      RemoveBootFile, Configure, Answers
  <1>6. ASSUME Exists(srv, s), c.op = "AddExclusion"
        PROVE  \/ outcome = "ok"
               \/ outcome = "alreadyExists" /\ c.arg \in srv.scopes[s].exclusions
    <2>1. outcome = AddExclusion(srv, s, c.arg).outcome
      BY <1>2, <1>6 DEF RelationshipOps, RunOnScope
    <2>2. QED
      BY <2>1 DEF AddExclusion, Configure, Answers
  <1>7. ASSUME Exists(srv, s), c.op = "RemoveExclusion"
        PROVE  \/ outcome = "ok"
               \/ outcome = "notFound" /\ c.arg \notin srv.scopes[s].exclusions
    <2>1. outcome = RemoveExclusion(srv, s, c.arg).outcome
      BY <1>2, <1>7 DEF RelationshipOps, RunOnScope
    <2>2. QED
      BY <2>1 DEF RemoveExclusion, Configure, Answers
  <1>8. c.op = "RemoveExclusion" /\ ~Exists(srv, s) => outcome = "notFound"
    BY DEF Run, RelationshipOps, Answers
  <1>9. QED
    BY <1>1, <1>3, <1>4, <1>5, <1>6, <1>7, <1>8

\* Relationships but n are as they were.
OthersSame(srv, new, n) == \A m \in Names \ {n} : new.rels[m] = srv.rels[m]

\* Most cmdlets leave the relationships as they are.
LEMMA RunKeepsRels ==
    ASSUME NEW srv \in Server, NEW s \in Scopes, NEW c \in Cmdlet,
           c.op \notin RelationshipOps \cup {"CreateRelationship", "AddToRelationship"}
    PROVE  Run(srv, s, c).server.rels = srv.rels
  <1>1. CASE c.op \in ConfigOps \cup {"AddScope", "RemoveScope"}
    BY <1>1, RunLeavesRelationships
  <1>2. CASE c.op = "Replicate"
    BY <1>2 DEF Run, RunOnScope, RelationshipOps, Replicate, Answers, Server
  <1>3. QED
    BY <1>1, <1>2, ConfigArgs

\* A scope in no relationship creates one that is not there;
LEMMA RunCreatesRelationship ==
    ASSUME NEW srv \in Server, NEW s \in Scopes, NEW c \in Cmdlet,
           c.op = "CreateRelationship", srv.rels[c.arg.name] = None,
           Exists(srv, s), RelationshipsOf(srv, s) = {}
    PROVE  /\ Run(srv, s, c).outcome = "ok"
           /\ OthersSame(srv, Run(srv, s, c).server, c.arg.name)
           /\ Run(srv, s, c).server.rels[c.arg.name] =
                [peer |-> c.arg.peer, tuning |-> c.arg.tuning, members |-> {s}]
  <1> DEFINE new == Run(srv, s, c).server
             made == [peer |-> c.arg.peer, tuning |-> c.arg.tuning, members |-> {s}]
  <1>1. Run(srv, s, c) = CreateRelationship(srv, s, c.arg)
    BY DEF Run, RunOnScope, RelationshipOps
  <1>2. c.arg.name \in Names
    BY ConfigArgs DEF Failover
  <1>3. /\ Run(srv, s, c).outcome = "ok"
        /\ new = [srv EXCEPT !.rels[c.arg.name] = made, !.synced = @ \cup {s}]
    BY <1>1 DEF CreateRelationship, Answers
  <1>4. new.rels = [srv.rels EXCEPT ![c.arg.name] = made]
    BY <1>3 DEF Server
  <1>5. srv.rels \in [Names -> Relationship \cup {None}]
    BY DEF Server
  <1>6. QED
    BY <1>2, <1>3, <1>4, <1>5 DEF OthersSame

\* leaves one that lists it;
LEMMA RunLeaves ==
    ASSUME NEW srv \in Server, NEW s \in Scopes, NEW c \in Cmdlet,
           c.op = "RemoveFromRelationship", Lists(srv, c.arg, s)
    PROVE  /\ Run(srv, s, c).outcome = "ok"
           /\ OthersSame(srv, Run(srv, s, c).server, c.arg)
           /\ ~Lists(Run(srv, s, c).server, c.arg, s)
  <1>1. Run(srv, s, c) = RemoveFromRelationship(srv, s, c.arg)
    BY DEF Run, RunOnRelationship, RelationshipOps
  <1>2. c.arg \in Names
    BY ConfigArgs
  <1>3. QED
    BY <1>1, <1>2
       DEF RemoveFromRelationship, Answers, Server, OthersSame, Lists, Relationship

\* removes one that is there;
LEMMA RunRemovesRelationship ==
    ASSUME NEW srv \in Server, NEW s \in Scopes, NEW c \in Cmdlet,
           c.op = "RemoveRelationship", srv.rels[c.arg] # None
    PROVE  /\ Run(srv, s, c).outcome = "ok"
           /\ OthersSame(srv, Run(srv, s, c).server, c.arg)
           /\ Run(srv, s, c).server.rels[c.arg] = None
  <1> DEFINE new == Run(srv, s, c).server
  <1>1. Run(srv, s, c) = RemoveRelationship(srv, c.arg)
    BY DEF Run, RunOnRelationship, RelationshipOps
  <1>2. c.arg \in Names
    BY ConfigArgs
  <1>3. /\ Run(srv, s, c).outcome = "ok"
        /\ new = [srv EXCEPT !.rels[c.arg] = None, !.synced = @ \ srv.rels[c.arg].members]
    BY <1>1 DEF RemoveRelationship, Answers
  <1>4. new.rels = [srv.rels EXCEPT ![c.arg] = None]
    BY <1>3 DEF Server
  <1>5. srv.rels \in [Names -> Relationship \cup {None}]
    BY DEF Server
  <1>6. QED
    BY <1>2, <1>3, <1>4, <1>5 DEF OthersSame

\* tunes one that is there;
LEMMA RunTunes ==
    ASSUME NEW srv \in Server, NEW s \in Scopes, NEW c \in Cmdlet,
           c.op = "TuneRelationship", srv.rels[c.arg.name] # None
    PROVE  /\ Run(srv, s, c).outcome = "ok"
           /\ OthersSame(srv, Run(srv, s, c).server, c.arg.name)
           /\ Run(srv, s, c).server.rels[c.arg.name] =
                [srv.rels[c.arg.name] EXCEPT !.tuning = c.arg.tuning]
  <1>1. Run(srv, s, c) = TuneRelationship(srv, c.arg)
    BY DEF Run, RunOnRelationship, RelationshipOps
  <1>2. c.arg.name \in Names
    BY ConfigArgs DEF Failover
  <1>3. QED
    BY <1>1, <1>2 DEF TuneRelationship, Answers, Server, OthersSame

\* and replicates itself if it is in one.
LEMMA RunReplicates ==
    ASSUME NEW srv \in Server, NEW s \in Scopes, NEW c \in Cmdlet,
           c.op = "Replicate", Exists(srv, s), RelationshipsOf(srv, s) # {}
    PROVE  Run(srv, s, c).outcome = "ok" /\ s \in Run(srv, s, c).server.synced
  <1>1. Run(srv, s, c) = Replicate(srv, s)
    BY DEF Run, RunOnScope, RelationshipOps
  <1>2. QED
    BY <1>1 DEF Replicate, Answers, Server

\* The partner's copies of other scopes do not suffer.
LEMMA RunSynced ==
    ASSUME NEW srv \in Server, NEW s \in Scopes, NEW c \in Cmdlet,
           NEW t \in Scopes, t # s, t \in srv.synced,
           c.op = "RemoveRelationship" => ~Lists(srv, c.arg, t)
    PROVE  t \in Run(srv, s, c).server.synced
  <1>1. CASE c.op \in RelationshipOps
    <2>1. Run(srv, s, c) = RunOnRelationship(srv, s, c)
      BY <1>1 DEF Run, RelationshipOps
    <2>2. CASE c.op = "RemoveFromRelationship"
      BY <2>1, <2>2 DEF RunOnRelationship, RemoveFromRelationship, Answers, Server
    <2>3. CASE c.op = "RemoveRelationship"
      BY <2>1, <2>3 DEF RunOnRelationship, RemoveRelationship, Answers, Server, Lists
    <2>4. CASE c.op = "TuneRelationship"
      BY <2>1, <2>4 DEF RunOnRelationship, TuneRelationship, Answers, Server
    <2>5. QED
      BY <1>1, <2>2, <2>3, <2>4 DEF RelationshipOps
  <1>2. CASE c.op \in {"CreateRelationship", "AddToRelationship", "Replicate"}
    BY <1>2 DEF Run, RunOnScope, RelationshipOps, CreateRelationship,
                AddToRelationship, Replicate, Answers, Server
  <1>3. CASE c.op \in ConfigOps \cup {"AddScope", "RemoveScope"}
    <2>1. \/ \E config : Run(srv, s, c) = Configure(srv, s, config)
          \/ \E error : Run(srv, s, c) = Answers(error, srv)
          \/ Run(srv, s, c) = RemoveScope(srv, s)
      <3>1. CASE c.op = "AddScope"
        BY <3>1 DEF Run, RelationshipOps
      <3>2. CASE c.op \in {"RemoveScope", "SetRange", "SetParams", "SetOptions",
                           "SetBootHost", "SetBootFile"}
        BY <3>2 DEF Run, RelationshipOps, RunOnScope, SetRange, SetOptions
      <3>3. CASE c.op \in {"RemoveRouter", "RemoveBootHost", "RemoveBootFile"}
        BY <3>3 DEF Run, RelationshipOps, RunOnScope, RemoveRouter,
                    RemoveBootHost, RemoveBootFile
      <3>4. CASE c.op \in {"AddExclusion", "RemoveExclusion"}
        BY <3>4 DEF Run, RelationshipOps, RunOnScope, AddExclusion, RemoveExclusion
      <3>5. QED
        BY <1>3, <3>1, <3>2, <3>3, <3>4 DEF ConfigOps
    <2>2. \/ Run(srv, s, c).server.synced = srv.synced \ {s}
          \/ Run(srv, s, c).server = srv
      <3>1. ASSUME NEW config, Run(srv, s, c) = Configure(srv, s, config)
            PROVE  Run(srv, s, c).server.synced = srv.synced \ {s}
        <4>1. Run(srv, s, c).server = [srv EXCEPT !.scopes[s] = config, !.synced = @ \ {s}]
          BY <3>1 DEF Configure, Answers
        <4>2. QED
          BY <4>1 DEF Server
      <3>2. ASSUME Run(srv, s, c) = RemoveScope(srv, s)
            PROVE  Run(srv, s, c).server.synced = srv.synced \ {s}
        <4>1. Run(srv, s, c).server = [srv EXCEPT !.scopes[s] = None, !.synced = @ \ {s}]
          BY <3>2 DEF RemoveScope, Answers
        <4>2. QED
          BY <4>1 DEF Server
      <3>3. ASSUME NEW error, Run(srv, s, c) = Answers(error, srv)
            PROVE  Run(srv, s, c).server = srv
        BY <3>3 DEF Answers
      <3>4. QED
        BY <2>1, <3>1, <3>2, <3>3
    <2>3. QED
      BY <2>2
  <1>4. QED
    BY <1>1, <1>2, <1>3, ConfigArgs

\* The cmdlet that a step issues.
LEMMA CommandKinds ==
    ASSUME NEW steps, NEW rest, NEW c, Advance(steps, c, rest),
           Head(steps).do.op \notin LookupOps
    PROVE  \/ /\ Head(steps).do.op \in BatchOps /\ c.arg \in Head(steps).do.arg
              /\ \/ Head(steps).do.op = "AddExclusions" /\ c.op = "AddExclusion"
                 \/ Head(steps).do.op = "RemoveExclusions" /\ c.op = "RemoveExclusion"
           \/ Head(steps).do.op \notin BatchOps /\ c = Head(steps).do /\ rest = Tail(steps)
  BY AdvanceKinds DEF BatchOps

\* What a cmdlet of a relationship needs: the relationship it creates is not
\* there, the others are as the write takes them to be.
Finds(srv, s, c, desired) ==
    /\ c.op # "AddToRelationship"
    /\ c.op = "CreateRelationship" =>
         /\ desired.failover # None /\ c.arg = desired.failover
         /\ srv.rels[c.arg.name] = None /\ RelationshipsOf(srv, s) = {}
    /\ c.op = "RemoveFromRelationship" => RelationshipsOf(srv, s) = {c.arg}
    /\ c.op = "RemoveRelationship" =>
         srv.rels[c.arg] # None /\ srv.rels[c.arg].members = {}
    /\ c.op \in {"TuneRelationship", "Replicate"} =>
         JoinedAsAsked(srv, s, desired.failover.name, desired)
    /\ c.op = "TuneRelationship" => c.arg = desired.failover

\* A write finds what its next cmdlet needs.
LEMMA WriteFinds ==
    ASSUME NEW srv, NEW s, NEW desired, NEW owner,
           NEW steps \in Seq(Step), NEW rest \in Seq(Step), NEW c, steps # << >>,
           Advance(steps, c, rest), Head(steps).do.op \notin LookupOps,
           JoinsAsAsked(steps, desired), WriteFits(srv, s, steps, desired, owner)
    PROVE  Finds(srv, s, c, desired)
  <1> DEFINE head == Head(steps)
  <1>1. Ahead(steps) = {head} \cup Ahead(Tail(steps))
    BY AheadHead
  <1>2. \A step \in Ahead(Tail(steps)) : Before(head.do.op, step.do.op)
    BY AdvanceSuccessor, OrderSuccessor DEF WriteFits, Fitting
  <1>3. \/ head.do.op \in BatchOps /\ c.op \in {"AddExclusion", "RemoveExclusion"}
        \/ head.do.op \notin BatchOps /\ c = head.do /\ rest = Tail(steps)
    BY CommandKinds
  <1> HIDE DEF head
  <1>4. CASE c.op \in {"AddExclusion", "RemoveExclusion"}
    BY <1>4 DEF Finds
  <1>5. CASE c = head.do /\ c.op \in {"CreateRelationship", "AddToRelationship"}
    <2>1. /\ c.op # "AddToRelationship"
          /\ c.op = "CreateRelationship" => srv.rels[c.arg.name] = None
      BY <1>5 DEF WriteFits, Fitting, AsFound, Does, head
    <2>2. desired.failover # None /\ c.arg = desired.failover
      BY <1>1, <1>5, <2>1 DEF JoinsAsAsked
    <2>3. JoinsAhead(steps) /\ ~LeavesAhead(steps)
      BY <1>1, <1>2, <1>5 DEF JoinsAhead, LeavesAhead, Joins, Leaves, Before, Does
    <2>4. RelationshipsOf(srv, s) = {}
      BY <2>3 DEF WriteFits, Parts
    <2>5. QED
      BY <1>5, <2>1, <2>2, <2>4 DEF Finds
  <1>6. CASE c = head.do /\ c.op = "RemoveFromRelationship"
    BY <1>1, <1>6 DEF WriteFits, Fitting, LeavesOwn, Does, Finds
  <1>7. CASE c = head.do /\ c.op = "RemoveRelationship"
    BY <1>7 DEF WriteFits, Fitting, AsFound, Does, Finds, head
  <1>8. CASE c = head.do /\ c.op \in {"TuneRelationship", "Replicate"}
    <2>1. /\ desired.failover # None
          /\ c.op = "TuneRelationship" => c.arg = desired.failover
      BY <1>1, <1>8 DEF JoinsAsAsked, WriteFits, Follows, Does
    <2>2. ~JoinsAhead(steps)
      BY <1>1, <1>2, <1>8 DEF JoinsAhead, Joins, Before
    <2>3. JoinedAsAsked(srv, s, desired.failover.name, desired)
      BY <2>1, <2>2 DEF WriteFits, Arrives
    <2>4. QED
      BY <1>8, <2>1, <2>3 DEF Finds
  <1>9. CASE /\ c = head.do
             /\ c.op \notin {"CreateRelationship", "AddToRelationship",
                             "RemoveFromRelationship", "RemoveRelationship",
                             "TuneRelationship", "Replicate"}
    BY <1>9 DEF Finds
  <1>10. QED
    BY <1>3, <1>4, <1>5, <1>6, <1>7, <1>8, <1>9

\* And so does a delete.
LEMMA DeleteFinds ==
    ASSUME NEW srv, NEW s, NEW desired, NEW owner,
           NEW steps \in Seq(Step), NEW rest \in Seq(Step), NEW c, steps # << >>,
           Advance(steps, c, rest), Head(steps).do.op \notin LookupOps,
           Deleting(srv, s, steps), DeleteFits(srv, s, steps, owner)
    PROVE  Finds(srv, s, c, desired)
  <1> DEFINE head == Head(steps)
  <1>1. Ahead(steps) = {head} \cup Ahead(Tail(steps))
    BY AheadHead
  <1>2. \/ head.do.op \in BatchOps /\ c.op \in {"AddExclusion", "RemoveExclusion"}
        \/ head.do.op \notin BatchOps /\ c = head.do /\ rest = Tail(steps)
    BY CommandKinds
  <1>3. head.do.op \in DeletingOps
    BY <1>1 DEF Deleting
  <1> HIDE DEF head
  <1>4. CASE c.op \in {"AddExclusion", "RemoveExclusion"}
    BY <1>4 DEF Finds
  <1>5. CASE c = head.do /\ c.op = "RemoveFromRelationship"
    BY <1>1, <1>5 DEF DeleteFits, Fitting, LeavesOwn, Does, Finds
  <1>6. CASE c = head.do /\ c.op = "RemoveRelationship"
    BY <1>6 DEF DeleteFits, Fitting, AsFound, Does, Finds, head
  <1>7. CASE c = head.do /\ c.op \notin {"RemoveFromRelationship", "RemoveRelationship"}
    BY <1>3, <1>7 DEF Finds, DeletingOps
  <1>8. QED
    BY <1>2, <1>4, <1>5, <1>6, <1>7

\* The server accepts a cmdlet of a relationship that finds what it needs.
LEMMA FindsSucceeds ==
    ASSUME NEW srv \in Server, NEW s \in Scopes, NEW c \in Cmdlet,
           NEW desired \in Payload, Finds(srv, s, c, desired),
           c.op \in RelationshipOps \cup {"CreateRelationship", "Replicate"},
           c.op \in {"CreateRelationship", "Replicate"} => Exists(srv, s)
    PROVE  Run(srv, s, c).outcome = "ok"
  <1>1. CASE c.op = "CreateRelationship"
    BY <1>1, RunCreatesRelationship DEF Finds
  <1>2. CASE c.op = "RemoveFromRelationship"
    <2>1. Lists(srv, c.arg, s)
      BY <1>2, RelationshipsOfLists DEF Finds
    <2>2. QED
      BY <1>2, <2>1, RunLeaves
  <1>3. CASE c.op = "RemoveRelationship"
    <2>1. srv.rels[c.arg] # None
      BY <1>3 DEF Finds
    <2>2. QED
      BY <1>3, <2>1, RunRemovesRelationship
  <1>4. CASE c.op = "TuneRelationship"
    BY <1>4, RunTunes DEF Finds, JoinedAsAsked, Lists
  <1>5. CASE c.op = "Replicate"
    <2>1. /\ desired.failover # None /\ Lists(srv, desired.failover.name, s)
          /\ desired.failover \in Failover \cup {None}
      BY <1>5 DEF Finds, JoinedAsAsked, Payload
    <2>2. desired.failover.name \in RelationshipsOf(srv, s)
      BY <2>1, RelationshipsOfLists DEF Failover
    <2>3. RelationshipsOf(srv, s) # {} /\ Exists(srv, s)
      BY <1>5, <2>2
    <2>4. QED
      BY <1>5, <2>3, RunReplicates
  <1>6. QED
    BY <1>1, <1>2, <1>3, <1>4, <1>5 DEF RelationshipOps

\* The server accepts the next cmdlet of a write, or answers what is tolerated.
LEMMA WriteAccepted ==
    ASSUME NEW srv \in Server, NEW s \in Scopes, NEW desired \in Payload, NEW owner,
           NEW steps \in Seq(Step), NEW rest \in Seq(Step), NEW c \in Cmdlet,
           steps # << >>, Advance(steps, c, rest), Head(steps).do.op \notin LookupOps,
           Writing(srv.scopes[s], steps, desired), JoinsAsAsked(steps, desired),
           WriteFits(srv, s, steps, desired, owner)
    PROVE  Run(srv, s, c).outcome \in {"ok"} \cup Head(steps).tolerates
  <1> DEFINE head == Head(steps)
  <1>1. Ahead(steps) = {head} \cup Ahead(Tail(steps)) /\ head \in Ahead(steps)
    BY AheadHead
  <1>2. \/ /\ head.do.op \in BatchOps /\ c.arg \in head.do.arg
           /\ \/ head.do.op = "AddExclusions" /\ c.op = "AddExclusion"
              \/ head.do.op = "RemoveExclusions" /\ c.op = "RemoveExclusion"
        \/ head.do.op \notin BatchOps /\ c = head.do /\ rest = Tail(steps)
    BY CommandKinds
  <1>3. Finds(srv, s, c, desired)
    BY WriteFinds
  <1>4. StartsAnew(steps) <=> head.do.op = "AddScope"
    BY DEF StartsAnew, Does
  <1>5. head.do.op = "AddScope" <=> ~Exists(srv, s)
    BY <1>4 DEF Writing, Exists
  <1>6. c.op = "AddScope" <=> head.do.op = "AddScope"
    BY <1>2 DEF BatchOps
  <1>7. head.do.op # "AddScope" => Base(srv.scopes[s], steps) = srv.scopes[s]
    BY <1>4 DEF Base
  <1>8. head.do.op \in WritingOps
    BY <1>1 DEF Writing
  <1>9. c.op = "SetRange" => Accepted(srv.scopes[s].range, c.arg)
    <2>1. SUFFICES ASSUME c.op = "SetRange" PROVE Accepted(srv.scopes[s].range, c.arg)
      OBVIOUS
    <2>2. c = head.do /\ RangesFit(srv.scopes[s], steps)
      BY <1>2, <1>6, <1>7, <2>1 DEF WriteFits
    <2>3. 1 \in 1 .. Len(steps) /\ head = steps[1]
      BY TailPlaces
    <2>4. QED
      BY <2>1, <2>2, <2>3 DEF RangesFit, Does
  <1>10. head.do.op \in {"AddExclusions", "RemoveExclusions"} =>
           ExclusionsFit(srv.scopes[s], steps)
    BY <1>7 DEF WriteFits
  <1>11. head.do.op \in {"RemoveRouter", "RemoveBootHost", "RemoveBootFile"} =>
           "notFound" \in head.tolerates
    BY <1>1 DEF WriteFits, Follows
  <1> HIDE DEF head
  <1>12. CASE c.op = "AddScope"
    BY <1>5, <1>6, <1>12, RunSucceeds
  <1>13. CASE c.op \in {"SetParams", "SetOptions", "SetBootHost", "SetBootFile", "SetRange"}
    BY <1>5, <1>6, <1>9, <1>13, RunSucceeds
  <1>14. CASE c.op \in {"RemoveRouter", "RemoveBootHost", "RemoveBootFile"}
    <2>1. Run(srv, s, c).outcome \in {"ok", "notFound"}
      BY <1>5, <1>6, <1>14, RunSucceeds
    <2>2. head.do.op = c.op
      BY <1>2, <1>14
    <2>3. QED
      BY <1>11, <1>14, <2>1, <2>2 DEF head
  <1>15. CASE c.op = "AddExclusion"
    <2>1. head.do.op = "AddExclusions" /\ c.arg \in head.do.arg
      BY <1>2, <1>8, <1>15 DEF WritingOps
    <2>2. \/ "alreadyExists" \in head.tolerates
          \/ c.arg \notin srv.scopes[s].exclusions
      BY <1>1, <1>10, <2>1 DEF ExclusionsFit, Does
    <2>3. QED
      BY <1>5, <1>6, <1>15, <2>2, RunSucceeds DEF head
  <1>16. CASE c.op = "RemoveExclusion"
    <2>1. head.do.op = "RemoveExclusions" /\ c.arg \in head.do.arg
      BY <1>2, <1>8, <1>16 DEF WritingOps
    <2>2. \/ "notFound" \in head.tolerates
          \/ c.arg \in srv.scopes[s].exclusions
      BY <1>1, <1>10, <2>1 DEF ExclusionsFit, Does
    <2>3. QED
      BY <1>5, <1>6, <1>16, <2>2, RunSucceeds DEF head
  <1>17. CASE c.op \in RelationshipOps \cup {"CreateRelationship", "Replicate"}
    <2>1. Exists(srv, s)
      BY <1>5, <1>6, <1>17 DEF RelationshipOps
    <2>2. QED
      BY <1>3, <1>17, <2>1, FindsSucceeds
  <1>18. c.op \notin {"RemoveScope", "AddToRelationship"}
    BY <1>2, <1>3, <1>8 DEF WritingOps, Finds
  <1>19. QED
    BY <1>12, <1>13, <1>14, <1>15, <1>16, <1>17, <1>18, ConfigArgs DEF ConfigOps

\* So it does with the next cmdlet of a delete.
LEMMA DeleteAccepted ==
    ASSUME NEW srv \in Server, NEW s \in Scopes, NEW owner,
           NEW steps \in Seq(Step), NEW rest \in Seq(Step), NEW c \in Cmdlet,
           steps # << >>, Advance(steps, c, rest), Head(steps).do.op \notin LookupOps,
           Deleting(srv, s, steps), DeleteFits(srv, s, steps, owner)
    PROVE  Run(srv, s, c).outcome \in {"ok"} \cup Head(steps).tolerates
  <1> DEFINE head == Head(steps)
  <1>1. Ahead(steps) = {head} \cup Ahead(Tail(steps)) /\ head \in Ahead(steps)
    BY AheadHead
  <1>2. \/ /\ head.do.op \in BatchOps /\ c.arg \in head.do.arg
           /\ \/ head.do.op = "AddExclusions" /\ c.op = "AddExclusion"
              \/ head.do.op = "RemoveExclusions" /\ c.op = "RemoveExclusion"
        \/ head.do.op \notin BatchOps /\ c = head.do /\ rest = Tail(steps)
    BY CommandKinds
  <1>3. head.do.op \in DeletingOps \ LookupOps
    BY <1>1 DEF Deleting
  <1>4. \/ c.op \in {"RemoveFromRelationship", "RemoveRelationship", "RemoveScope"} /\ c = head.do
        \/ c.op = "RemoveExclusion" /\ head.do.op = "RemoveExclusions"
    BY <1>2, <1>3 DEF DeletingOps, LookupOps, BatchOps
  <1>5. CASE c.op = "RemoveFromRelationship"
    <2>1. RelationshipsOf(srv, s) = {c.arg}
      BY <1>1, <1>4, <1>5 DEF DeleteFits, Fitting, LeavesOwn, Does
    <2>2. Lists(srv, c.arg, s)
      BY <2>1, RelationshipsOfLists
    <2>3. QED
      BY <1>5, <2>2, RunLeaves
  <1>6. CASE c.op = "RemoveRelationship"
    <2>1. srv.rels[c.arg] # None
      BY <1>4, <1>6 DEF DeleteFits, Fitting, AsFound, Does
    <2>2. QED
      BY <1>6, <2>1, RunRemovesRelationship
  <1>7. CASE c.op = "RemoveScope"
    <2>1. Exists(srv, s)
      BY <1>1, <1>4, <1>7 DEF DeleteFits, Does
    <2>2. QED
      BY <1>7, <2>1, RunSucceeds
  <1>8. CASE c.op = "RemoveExclusion"
    <2>1. "notFound" \in head.tolerates
      BY <1>1, <1>4, <1>8 DEF DeleteFits, Does
    <2>2. QED
      BY <1>8, <2>1, RunSucceeds
  <1>9. QED
    BY <1>4, <1>5, <1>6, <1>7, <1>8

-----------------------------------------------------------------------------
(* Writes that fit go on fitting *)

\* What a cmdlet leaves ahead is what was ahead, or more of a batch.
LEMMA RestAhead ==
    ASSUME NEW steps \in Seq(Step), NEW rest \in Seq(Step), NEW c, steps # << >>,
           Advance(steps, c, rest), Head(steps).do.op \notin LookupOps
    PROVE  /\ Ahead(Tail(steps)) \subseteq Ahead(rest)
           /\ Ahead(Tail(steps)) \subseteq Ahead(steps)
           /\ \A step \in Ahead(rest) \ Ahead(Tail(steps)) :
                /\ step.do.op \in BatchOps /\ step.do.op = Head(steps).do.op
                /\ step.tolerates = Head(steps).tolerates
           /\ rest # << >> /\ rest # Tail(steps) => Head(rest).do.op \in BatchOps
  <1>1. /\ Ahead(steps) = {Head(steps)} \cup Ahead(Tail(steps))
        /\ \/ rest = Tail(steps)
           \/ rest # << >> /\ Ahead(rest) = {Head(rest)} \cup Ahead(Tail(steps))
    BY AdvanceAhead
  <1>2. rest # Tail(steps) =>
          /\ Head(steps).do.op \in BatchOps
          /\ Head(rest).do.op = Head(steps).do.op
          /\ Head(rest).tolerates = Head(steps).tolerates
    BY AdvanceKinds
  <1>3. QED
    BY <1>1, <1>2

\* The relationships of a scope that a cmdlet does not make it join.
LEMMA RunNoMore ==
    ASSUME NEW srv \in Server, NEW s \in Scopes, NEW c \in Cmdlet,
           c.op \notin {"CreateRelationship", "AddToRelationship"}
    PROVE  RelationshipsOf(Run(srv, s, c).server, s) \subseteq RelationshipsOf(srv, s)
  <1>1. SUFFICES ASSUME NEW n \in RelationshipsOf(Run(srv, s, c).server, s)
                 PROVE  n \in RelationshipsOf(srv, s)
    OBVIOUS
  <1>2. n \in Names /\ Lists(Run(srv, s, c).server, n, s)
    BY RelationshipsOfLists
  <1>3. Lists(srv, n, s)
    BY <1>2, RunLists
  <1>4. QED
    BY <1>2, <1>3, RelationshipsOfLists

\* A relationship of the scope's own still lists it, or has its removal ahead.
LEMMA OwnListedAdvances ==
    ASSUME NEW srv \in Server, NEW s \in Scopes, NEW desired, NEW owner,
           NEW steps \in Seq(Step), NEW rest \in Seq(Step), NEW c \in Cmdlet,
           steps # << >>, Advance(steps, c, rest), Head(steps).do.op \notin LookupOps,
           Fitting(srv, s, steps, owner), Finds(srv, s, c, desired),
           c.op = "CreateRelationship" => Exists(srv, s)
    PROVE  OwnListed(Run(srv, s, c).server, s, rest, owner)
  <1> DEFINE new == Run(srv, s, c).server
             Removes(step, n) ==
               /\ step.do.op \in {"CleanupRelationship", "RemoveRelationship"}
               /\ step.do.arg = n
  <1>1. /\ Ahead(steps) = {Head(steps)} \cup Ahead(Tail(steps))
        /\ Ahead(Tail(steps)) \subseteq Ahead(rest)
    BY RestAhead, AheadHead
  <1>2. SUFFICES ASSUME NEW n \in Names, owner[n] = s, new.rels[n] # None
                 PROVE  Lists(new, n, s) \/ \E step \in Ahead(rest) : Removes(step, n)
    BY DEF OwnListed
  <1>3. srv.rels[n] # None => Lists(srv, n, s) \/ \E step \in Ahead(steps) : Removes(step, n)
    BY <1>2 DEF Fitting, OwnListed
  <1>4. Head(steps).do.op \notin BatchOps => c = Head(steps).do
    BY CommandKinds
  <1>5. Removes(Head(steps), n) => c.op = "RemoveRelationship" /\ c.arg = n
    BY <1>4 DEF LookupOps, BatchOps
  <1>6. ASSUME new.rels[n] = srv.rels[n], ~(c.op = "RemoveRelationship" /\ c.arg = n)
        PROVE  Lists(new, n, s) \/ \E step \in Ahead(rest) : Removes(step, n)
    BY <1>1, <1>2, <1>3, <1>5, <1>6 DEF Lists
  <1> HIDE DEF Removes
  <1>7. CASE c.op \notin RelationshipOps \cup {"CreateRelationship", "AddToRelationship"}
    <2>1. new.rels = srv.rels
      BY <1>7, RunKeepsRels
    <2>2. QED
      BY <1>6, <1>7, <2>1 DEF RelationshipOps
  <1>8. CASE c.op = "CreateRelationship"
    <2>1. /\ OthersSame(srv, new, c.arg.name)
          /\ new.rels[c.arg.name] =
               [peer |-> c.arg.peer, tuning |-> c.arg.tuning, members |-> {s}]
      BY <1>8, RunCreatesRelationship DEF Finds
    <2>2. CASE n = c.arg.name
      BY <1>2, <2>1, <2>2 DEF Lists
    <2>3. CASE n # c.arg.name
      BY <1>6, <1>8, <2>1, <2>3 DEF OthersSame
    <2>4. QED
      BY <2>2, <2>3
  <1>9. CASE c.op = "RemoveFromRelationship"
    <2>1. Lists(srv, c.arg, s)
      BY <1>9, RelationshipsOfLists DEF Finds
    <2>2. OthersSame(srv, new, c.arg)
      BY <1>9, <2>1, RunLeaves
    <2>3. CASE n = c.arg
      <3>1. /\ rest # << >>
            /\ Head(rest).do = [op |-> "CleanupRelationship", arg |-> n]
        BY <1>9, <2>3, LooksAdvances DEF Fitting
      <3>2. Head(rest) \in Ahead(rest)
        BY <3>1, AheadHead
      <3>3. QED
        BY <3>1, <3>2 DEF Removes
    <2>4. CASE n # c.arg
      BY <1>6, <1>9, <2>2, <2>4 DEF OthersSame
    <2>5. QED
      BY <2>3, <2>4
  <1>10. CASE c.op = "RemoveRelationship"
    <2>1. OthersSame(srv, new, c.arg) /\ new.rels[c.arg] = None
      BY <1>10, RunRemovesRelationship DEF Finds
    <2>2. n # c.arg
      BY <1>2, <2>1
    <2>3. QED
      BY <1>6, <2>1, <2>2 DEF OthersSame
  <1>11. CASE c.op = "TuneRelationship"
    <2>1. srv.rels[c.arg.name] # None
      BY <1>11 DEF Finds, JoinedAsAsked, Lists
    <2>2. /\ OthersSame(srv, new, c.arg.name)
          /\ new.rels[c.arg.name] = [srv.rels[c.arg.name] EXCEPT !.tuning = c.arg.tuning]
      BY <1>11, <2>1, RunTunes
    <2>3. CASE n = c.arg.name
      <3>1. srv.rels[n] \in Relationship
        BY <1>2, <2>1, <2>3 DEF Server
      <3>2. new.rels[n].members = srv.rels[n].members
        BY <2>2, <2>3, <3>1 DEF Relationship
      <3>3. QED
        BY <1>1, <1>2, <1>3, <1>5, <1>11, <2>1, <2>3, <3>2 DEF Lists
    <2>4. CASE n # c.arg.name
      BY <1>6, <1>11, <2>2, <2>4 DEF OthersSame
    <2>5. QED
      BY <2>3, <2>4
  <1>12. QED
    BY <1>7, <1>8, <1>9, <1>10, <1>11 DEF Finds, RelationshipOps

\* What all writes have in common stays so when one issues a cmdlet.
LEMMA FittingAdvances ==
    ASSUME NEW srv \in Server, NEW s \in Scopes, NEW desired, NEW owner,
           NEW steps \in Seq(Step), NEW rest \in Seq(Step), NEW c \in Cmdlet,
           steps # << >>, Advance(steps, c, rest), Head(steps).do.op \notin LookupOps,
           Fitting(srv, s, steps, owner), Finds(srv, s, c, desired),
           c.op = "CreateRelationship" => Exists(srv, s)
    PROVE  Fitting(Run(srv, s, c).server, s, rest, owner)
  <1> DEFINE new == Run(srv, s, c).server
  <1>1. /\ InOrder(rest) /\ DecidedNext(rest)
        /\ \A step \in Ahead(Tail(steps)) : Before(Head(steps).do.op, step.do.op)
    BY AdvanceSuccessor, OrderSuccessor DEF Fitting
  <1>2. LooksAfterLeaving(rest)
    BY LooksAdvances DEF Fitting
  <1>3. /\ Ahead(Tail(steps)) \subseteq Ahead(steps)
        /\ \A step \in Ahead(rest) \ Ahead(Tail(steps)) : step.do.op \in BatchOps
        /\ rest # << >> /\ rest # Tail(steps) => Head(rest).do.op \in BatchOps
    BY RestAhead
  <1>4. LeavesOwned(s, rest, owner)
    BY <1>3 DEF Fitting, LeavesOwned, Leaves, BatchOps
  <1>5. LeavesOwn(new, s, rest)
    <2>1. SUFFICES ASSUME NEW step \in Ahead(rest), Does(step, "RemoveFromRelationship")
                   PROVE  RelationshipsOf(new, s) = {step.do.arg}
      BY DEF LeavesOwn
    <2>2. step \in Ahead(Tail(steps))
      BY <1>3, <2>1 DEF Does, BatchOps
    <2>3. RelationshipsOf(srv, s) = {step.do.arg}
      BY <1>3, <2>1, <2>2 DEF Fitting, LeavesOwn
    <2>4. Head(steps).do.op \notin Joins \cup Leaves \cup {"TuneRelationship", "Replicate"}
      BY <1>1, <2>1, <2>2 DEF Before, Does, Joins, Leaves, BatchOps
    <2>5. c.op \notin RelationshipOps \cup {"CreateRelationship", "AddToRelationship"}
      BY <2>4, CommandKinds DEF RelationshipOps, Joins, Leaves
    <2>6. new.rels = srv.rels
      BY <2>5, RunKeepsRels
    <2>7. QED
      BY <2>3, <2>6 DEF RelationshipsOf
  <1>6. AsFound(new, s, rest)
    <2>1. SUFFICES ASSUME rest # << >> PROVE Head(rest).do.op \notin Decided
      BY DEF AsFound, Decided, Does
    <2>2. CASE rest = Tail(steps)
      <3>1. Head(rest) \in Ahead(rest)
        BY <2>1, AheadHead
      <3>2. QED
        BY <2>2, <3>1 DEF Fitting, DecidedNext
    <2>3. CASE rest # Tail(steps)
      BY <1>3, <2>1, <2>3 DEF Decided, BatchOps
    <2>4. QED
      BY <2>2, <2>3
  <1>7. OwnListed(new, s, rest, owner)
    BY OwnListedAdvances
  <1>8. QED
    BY <1>1, <1>2, <1>4, <1>5, <1>6, <1>7 DEF Fitting

\* A write that is to join a relationship is in none, or leaves the one it is in;
LEMMA PartsAdvances ==
    ASSUME NEW srv \in Server, NEW s \in Scopes, NEW desired, NEW owner,
           NEW steps \in Seq(Step), NEW rest \in Seq(Step), NEW c \in Cmdlet,
           steps # << >>, Advance(steps, c, rest), Head(steps).do.op \notin LookupOps,
           WriteFits(srv, s, steps, desired, owner), Finds(srv, s, c, desired)
    PROVE  Parts(Run(srv, s, c).server, s, rest, desired)
  <1> DEFINE new == Run(srv, s, c).server
             head == Head(steps)
  <1>1. /\ Ahead(steps) = {head} \cup Ahead(Tail(steps))
        /\ Ahead(Tail(steps)) \subseteq Ahead(rest)
        /\ \A step \in Ahead(rest) \ Ahead(Tail(steps)) : step.do.op \in BatchOps
    BY RestAhead, AheadHead
  <1>2. \A step \in Ahead(Tail(steps)) : Before(head.do.op, step.do.op)
    BY AdvanceSuccessor, OrderSuccessor DEF WriteFits, Fitting
  <1>3. \/ head.do.op \in BatchOps /\ c.op \in {"AddExclusion", "RemoveExclusion"}
        \/ head.do.op \notin BatchOps /\ c = head.do /\ rest = Tail(steps)
    BY CommandKinds
  <1>4. SUFFICES ASSUME desired.failover = None \/ JoinsAhead(rest)
                 PROVE  RelationshipsOf(new, s) = {} \/ LeavesAhead(rest)
    BY DEF Parts
  <1>5. c.op = head.do.op \/ c.op \in {"AddExclusion", "RemoveExclusion"}
    BY <1>3
  <1>6. c.op \notin {"CreateRelationship", "AddToRelationship"}
    <2>1. SUFFICES ASSUME c.op = "CreateRelationship" PROVE FALSE
      BY DEF Finds
    <2>2. head.do.op = "CreateRelationship" /\ rest = Tail(steps)
      BY <1>3, <2>1
    <2>3. ~JoinsAhead(rest)
      BY <1>2, <2>2 DEF JoinsAhead, Before, Joins
    <2>4. QED
      BY <1>4, <2>1, <2>3 DEF Finds
  <1>7. RelationshipsOf(new, s) \subseteq RelationshipsOf(srv, s)
    BY <1>6, RunNoMore
  <1>8. CASE c.op = "RemoveFromRelationship"
    <2>1. RelationshipsOf(srv, s) = {c.arg}
      BY <1>8 DEF Finds
    <2>2. Lists(srv, c.arg, s)
      BY <2>1, RelationshipsOfLists
    <2>3. ~Lists(new, c.arg, s)
      BY <1>8, <2>2, RunLeaves
    <2>4. c.arg \notin RelationshipsOf(new, s)
      BY <2>3, RelationshipsOfLists
    <2>5. QED
      BY <1>7, <2>1, <2>4
  <1>9. CASE c.op # "RemoveFromRelationship"
    <2>1. desired.failover = None \/ JoinsAhead(steps)
      BY <1>1, <1>4 DEF JoinsAhead, Joins, BatchOps
    <2>2. RelationshipsOf(srv, s) = {} \/ LeavesAhead(steps)
      BY <2>1 DEF WriteFits, Parts
    <2>3. head.do.op # "RemoveFromRelationship"
      BY <1>3, <1>9 DEF BatchOps
    <2>4. LeavesAhead(steps) => LeavesAhead(rest)
      BY <1>1, <2>3 DEF LeavesAhead, Does
    <2>5. QED
      BY <1>7, <2>2, <2>4
  <1>10. QED
    BY <1>8, <1>9

\* one that is asked to be in a relationship still arrives there,
LEMMA ArrivesAdvances ==
    ASSUME NEW srv \in Server, NEW s \in Scopes, NEW desired, NEW owner,
           NEW steps \in Seq(Step), NEW rest \in Seq(Step), NEW c \in Cmdlet,
           steps # << >>, Advance(steps, c, rest), Head(steps).do.op \notin LookupOps,
           WriteFits(srv, s, steps, desired, owner), Finds(srv, s, c, desired),
           c.op = "CreateRelationship" => Exists(srv, s)
    PROVE  Arrives(Run(srv, s, c).server, s, rest, desired)
  <1> DEFINE new == Run(srv, s, c).server
             head == Head(steps)
             n == desired.failover.name
  <1>1. /\ Ahead(steps) = {head} \cup Ahead(Tail(steps))
        /\ Ahead(Tail(steps)) \subseteq Ahead(rest)
        /\ \A step \in Ahead(rest) \ Ahead(Tail(steps)) : step.do.op \in BatchOps
    BY RestAhead, AheadHead
  <1>2. \A step \in Ahead(Tail(steps)) : Before(head.do.op, step.do.op)
    BY AdvanceSuccessor, OrderSuccessor DEF WriteFits, Fitting
  <1>3. \/ head.do.op \in BatchOps /\ c.op \in {"AddExclusion", "RemoveExclusion"}
        \/ head.do.op \notin BatchOps /\ c = head.do /\ rest = Tail(steps)
    BY CommandKinds
  <1>4. SUFFICES ASSUME desired.failover # None
                 PROVE  \/ JoinsAhead(rest)
                        \/ /\ JoinedAsAsked(new, s, n, desired)
                           /\ \A step \in Ahead(rest) : step.do.op \notin Leaves
                           /\ \/ new.rels[n].tuning = desired.failover.tuning
                              \/ \E step \in Ahead(rest) : Does(step, "TuneRelationship")
    BY DEF Arrives
  <1>5. CASE c.op = "CreateRelationship"
    <2>1. head.do.op = "CreateRelationship" /\ rest = Tail(steps)
      BY <1>3, <1>5
    <2>2. \A step \in Ahead(rest) : step.do.op \notin Leaves
      BY <1>2, <2>1 DEF Before, Joins
    <2>3. /\ c.arg = desired.failover
          /\ new.rels[n] = [peer |-> desired.failover.peer,
                            tuning |-> desired.failover.tuning, members |-> {s}]
      BY <1>5, RunCreatesRelationship DEF Finds
    <2>4. n \in Names
      BY <1>5, <2>3, ConfigArgs DEF Failover
    <2>5. new.rels[n] # None
      BY <1>5, <2>3, <2>4, RunType, AbsentIsNoValue, ConfigArgs DEF Failover, Relationship
    <2>6. JoinedAsAsked(new, s, n, desired) /\ new.rels[n].tuning = desired.failover.tuning
      BY <1>4, <2>3, <2>5 DEF JoinedAsAsked, Lists
    <2>7. QED
      BY <2>2, <2>6
  <1>6. CASE c.op # "CreateRelationship"
    <2>1. head.do.op \notin Joins
      BY <1>3, <1>6 DEF Finds, Joins, BatchOps, LookupOps
    <2>2. CASE JoinsAhead(steps)
      BY <1>1, <2>1, <2>2 DEF JoinsAhead
    <2>3. CASE ~JoinsAhead(steps)
      <3>1. /\ JoinedAsAsked(srv, s, n, desired)
            /\ \A step \in Ahead(steps) : step.do.op \notin Leaves
            /\ \/ srv.rels[n].tuning = desired.failover.tuning
               \/ \E step \in Ahead(steps) : Does(step, "TuneRelationship")
        BY <1>4, <2>3 DEF WriteFits, Arrives
      <3>2. \A step \in Ahead(rest) : step.do.op \notin Leaves
        BY <1>1, <3>1 DEF Leaves, BatchOps
      <3>3. c.op \notin {"RemoveFromRelationship", "RemoveRelationship"}
        BY <1>1, <1>3, <3>1 DEF Leaves
      <3>4. CASE c.op = "TuneRelationship"
        <4>1. c.arg = desired.failover /\ srv.rels[n] # None
          BY <3>1, <3>4 DEF Finds, JoinedAsAsked, Lists
        <4>2. new.rels[n] = [srv.rels[n] EXCEPT !.tuning = desired.failover.tuning]
          BY <3>4, <4>1, RunTunes
        <4>3. n \in Names
          BY <3>4, <4>1, ConfigArgs DEF Failover
        <4>4. srv.rels[n] \in Relationship
          BY <4>1, <4>3 DEF Server
        <4>5. new.rels[n] \in Relationship
          BY <4>2, <4>4, <3>4, <4>1, ConfigArgs DEF Relationship, Failover
        <4>6. JoinedAsAsked(new, s, n, desired) /\ new.rels[n].tuning = desired.failover.tuning
          BY <3>1, <4>2, <4>4, <4>5, AbsentIsNoValue DEF JoinedAsAsked, Lists, Relationship
        <4>7. QED
          BY <3>2, <4>6
      <3>5. CASE c.op # "TuneRelationship"
        <4>1. new.rels = srv.rels
          BY <1>6, <3>3, <3>5, RunKeepsRels DEF RelationshipOps, Finds
        <4>2. head.do.op # "TuneRelationship"
          BY <1>3, <3>5 DEF BatchOps
        <4>3. QED
          BY <1>1, <3>1, <3>2, <4>1, <4>2 DEF JoinedAsAsked, Lists, Does
      <3>6. QED
        BY <3>4, <3>5
    <2>4. QED
      BY <2>2, <2>3
  <1>7. QED
    BY <1>5, <1>6

\* and the partner is still told at the end.
LEMMA FollowsAdvances ==
    ASSUME NEW srv \in Server, NEW s \in Scopes, NEW desired \in Payload, NEW owner,
           NEW steps \in Seq(Step), NEW rest \in Seq(Step), NEW c \in Cmdlet,
           steps # << >>, Advance(steps, c, rest), Head(steps).do.op \notin LookupOps,
           WriteFits(srv, s, steps, desired, owner), Finds(srv, s, c, desired),
           c.op = "Replicate" => Exists(srv, s)
    PROVE  Follows(Run(srv, s, c).server, s, rest, desired)
  <1> DEFINE new == Run(srv, s, c).server
             head == Head(steps)
  <1>1. /\ Ahead(steps) = {head} \cup Ahead(Tail(steps))
        /\ Ahead(Tail(steps)) \subseteq Ahead(rest)
        /\ \A step \in Ahead(rest) \ Ahead(Tail(steps)) : step.do.op \in BatchOps
    BY RestAhead, AheadHead
  <1>2. \A step \in Ahead(Tail(steps)) : Before(head.do.op, step.do.op)
    BY AdvanceSuccessor, OrderSuccessor DEF WriteFits, Fitting
  <1>3. \/ head.do.op \in BatchOps /\ c.op \in {"AddExclusion", "RemoveExclusion"}
        \/ head.do.op \notin BatchOps /\ c = head.do /\ rest = Tail(steps)
    BY CommandKinds
  <1>4. \A step \in Ahead(rest) :
          /\ Does(step, "Replicate") => desired.failover # None
          /\ step.do.op \in {"RemoveRouter", "RemoveBootHost", "RemoveBootFile"} =>
               "notFound" \in step.tolerates
    BY <1>1 DEF WriteFits, Follows, Does, BatchOps
  <1>5. ASSUME desired.failover # None
        PROVE  IF rest = << >> THEN s \in new.synced
               ELSE \E step \in Ahead(rest) : Does(step, "Replicate")
    <2>1. CASE head.do.op = "Replicate"
      <3>1. c.op = "Replicate" /\ rest = Tail(steps)
        BY <1>3, <2>1 DEF BatchOps
      <3>2. Ahead(rest) = {}
        BY <1>2, <2>1, <3>1 DEF Before
      <3>3. rest = << >>
        <4>1. rest # << >> => Ahead(rest) = {Head(rest)} \cup Ahead(Tail(rest))
          BY AheadHead
        <4>2. QED
          BY <3>2, <4>1
      <3>4. /\ Lists(srv, desired.failover.name, s)
            /\ desired.failover.name \in Names
        BY <1>5, <3>1 DEF Finds, JoinedAsAsked, Payload, Failover
      <3>5. desired.failover.name \in RelationshipsOf(srv, s)
        BY <3>4, RelationshipsOfLists
      <3>6. RelationshipsOf(srv, s) # {}
        BY <3>5
      <3>7. s \in new.synced
        BY <3>1, <3>6, RunReplicates
      <3>8. QED
        BY <3>3, <3>7
    <2>2. CASE head.do.op # "Replicate"
      <3>1. \E step \in Ahead(steps) : Does(step, "Replicate")
        BY <1>5 DEF WriteFits, Follows
      <3>2. \E step \in Ahead(rest) : Does(step, "Replicate")
        BY <1>1, <2>2, <3>1 DEF Does
      <3>3. rest # << >>
        BY <3>2, AheadEmpty
      <3>4. QED
        BY <3>2, <3>3
    <2>3. QED
      BY <2>1, <2>2
  <1>6. QED
    BY <1>4, <1>5 DEF Follows

\* The configuration that the rest of a write starts from.
LEMMA BaseAdvances ==
    ASSUME NEW srv \in Server, NEW s \in Scopes, NEW desired \in Payload,
           NEW steps \in Seq(Step), NEW rest \in Seq(Step), NEW c \in Cmdlet,
           steps # << >>, Advance(steps, c, rest), Head(steps).do.op \notin LookupOps,
           Writing(srv.scopes[s], steps, desired),
           Run(srv, s, c).outcome \in {"ok"} \cup Head(steps).tolerates
    PROVE  /\ Base(srv.scopes[s], steps) \in ScopeConfig
           /\ Base(Run(srv, s, c).server.scopes[s], rest) =
                Applied(Base(srv.scopes[s], steps), c)
           /\ Writing(Run(srv, s, c).server.scopes[s], rest, desired)
  <1> DEFINE head == Head(steps)
             held == srv.scopes[s]
             new == Run(srv, s, c).server.scopes[s]
  <1>1. head \in Ahead(steps)
    BY AheadHead
  <1>2. head.do.op \in WritingOps /\ head.tolerates \subseteq {"alreadyExists", "notFound"}
    BY <1>1 DEF Writing
  <1>3. \/ head.do.op \in BatchOps /\ c.op \in {"AddExclusion", "RemoveExclusion"}
        \/ head.do.op \notin BatchOps /\ c = head.do /\ rest = Tail(steps)
    BY CommandKinds
  <1>4. StartsAnew(steps) <=> c.op = "AddScope"
    BY <1>3 DEF StartsAnew, Does, BatchOps
  <1>5. c.op = "AddScope" <=> ~Exists(srv, s)
    BY <1>4 DEF Writing, Exists
  <1>6. c.op # "RemoveScope"
    BY <1>2, <1>3 DEF WritingOps
  <1>7. Took(srv, s, c, Run(srv, s, c).server, Run(srv, s, c).outcome)
    BY DEF Took
  <1>8. Run(srv, s, c).outcome \in {"ok", "alreadyExists", "notFound"}
    BY <1>2
  <1>9. /\ c.op = "AddScope" => new = Fresh(c.arg)
        /\ c.op # "AddScope" => new = Applied(held, c)
    BY <1>5, <1>6, <1>7, <1>8, TookWrites
  <1>10. held \in ScopeConfig \cup {None}
    BY DEF Server
  <1>11. Writing(new, rest, desired) /\ new # None
    BY <1>9, <1>10, WritingAdvances
  <1>12. Base(new, rest) = new
    BY <1>11 DEF Base, Writing
  <1>13. CASE c.op = "AddScope"
    <2>1. Base(held, steps) = Fresh(c.arg)
      BY <1>3, <1>4, <1>13 DEF Base
    <2>2. Fresh(c.arg) \in ScopeConfig
      BY <1>13, FreshType
    <2>3. Applied(Fresh(c.arg), c) = Fresh(c.arg)
      BY <1>13 DEF Applied
    <2>4. QED
      BY <1>9, <1>11, <1>12, <1>13, <2>1, <2>2, <2>3
  <1>14. CASE c.op # "AddScope"
    <2>1. Base(held, steps) = held /\ held \in ScopeConfig
      BY <1>4, <1>5, <1>10, <1>14 DEF Base, Exists
    <2>2. QED
      BY <1>9, <1>11, <1>12, <1>14, <2>1
  <1>15. QED
    BY <1>13, <1>14

\* A write that fits still fits when it has issued a cmdlet.
LEMMA WriteFitsAdvances ==
    ASSUME NEW srv \in Server, NEW s \in Scopes, NEW desired \in Payload, NEW owner,
           NEW steps \in Seq(Step), NEW rest \in Seq(Step), NEW c \in Cmdlet,
           steps # << >>, Advance(steps, c, rest), Head(steps).do.op \notin LookupOps,
           Writing(srv.scopes[s], steps, desired), JoinsAsAsked(steps, desired),
           WriteFits(srv, s, steps, desired, owner)
    PROVE  WriteFits(Run(srv, s, c).server, s, rest, desired, owner)
  <1> DEFINE new == Run(srv, s, c).server
             base == Base(srv.scopes[s], steps)
  <1>1. Finds(srv, s, c, desired)
    BY WriteFinds
  <1>2. Run(srv, s, c).outcome \in {"ok"} \cup Head(steps).tolerates
    BY WriteAccepted
  <1>3. base \in ScopeConfig /\ Base(new.scopes[s], rest) = Applied(base, c)
    BY <1>2, BaseAdvances
  <1>4. Head(steps) \in Ahead(steps)
    BY AheadHead
  <1>5. Head(steps).do.op \in WritingOps
    BY <1>4 DEF Writing
  <1>6. c.op \in {"CreateRelationship", "Replicate"} => Exists(srv, s)
    <2>1. c.op \in {"CreateRelationship", "Replicate"} => Head(steps).do = c
      BY CommandKinds
    <2>2. QED
      BY <2>1 DEF Writing, StartsAnew, Does, Exists
  <1>7. Fitting(new, s, rest, owner)
    BY <1>1, <1>6, FittingAdvances DEF WriteFits
  <1>8. \A step \in Ahead(Tail(steps)) : Before(Head(steps).do.op, step.do.op)
    BY AdvanceSuccessor, OrderSuccessor DEF WriteFits, Fitting
  <1>9. RangesFit(Applied(base, c), rest)
    BY <1>3, RangesFitAdvance DEF WriteFits
  <1>10. ExclusionsFit(Applied(base, c), rest)
    BY <1>3, <1>5, <1>8, ExclusionsFitAdvance DEF WriteFits
  <1>11. Parts(new, s, rest, desired)
    BY <1>1, PartsAdvances
  <1>12. Arrives(new, s, rest, desired)
    BY <1>1, <1>6, ArrivesAdvances
  <1>13. Follows(new, s, rest, desired)
    BY <1>1, <1>6, FollowsAdvances
  <1>14. QED
    BY <1>3, <1>7, <1>9, <1>10, <1>11, <1>12, <1>13 DEF WriteFits

\* So does a delete.
LEMMA DeleteFitsAdvances ==
    ASSUME NEW srv \in Server, NEW s \in Scopes, NEW owner,
           NEW steps \in Seq(Step), NEW rest \in Seq(Step), NEW c \in Cmdlet,
           steps # << >>, Advance(steps, c, rest), Head(steps).do.op \notin LookupOps,
           Deleting(srv, s, steps), DeleteFits(srv, s, steps, owner)
    PROVE  DeleteFits(Run(srv, s, c).server, s, rest, owner)
  <1> DEFINE new == Run(srv, s, c).server
             head == Head(steps)
  <1>1. /\ Ahead(steps) = {head} \cup Ahead(Tail(steps))
        /\ Ahead(Tail(steps)) \subseteq Ahead(steps)
        /\ \A step \in Ahead(rest) \ Ahead(Tail(steps)) :
             step.do.op \in BatchOps /\ step.do.op = head.do.op /\ step.tolerates = head.tolerates
    BY RestAhead, AheadHead
  <1>2. \A step \in Ahead(Tail(steps)) : Before(head.do.op, step.do.op)
    BY AdvanceSuccessor, OrderSuccessor DEF DeleteFits, Fitting
  <1>3. /\ head.do.op \in DeletingOps
        /\ \/ head.do.op \in BatchOps /\ c.op \in {"AddExclusion", "RemoveExclusion"}
           \/ head.do.op \notin BatchOps /\ c = head.do /\ rest = Tail(steps)
    BY <1>1, CommandKinds DEF Deleting
  <1>4. Finds(srv, s, c, None)
    BY DeleteFinds
  <1>5. c.op # "CreateRelationship"
    BY <1>3 DEF DeletingOps
  <1>6. Fitting(new, s, rest, owner)
    BY <1>4, <1>5, FittingAdvances DEF DeleteFits
  <1>7. SUFFICES ASSUME NEW step \in Ahead(rest)
                 PROVE  /\ Does(step, "RemoveExclusions") => "notFound" \in step.tolerates
                        /\ Does(step, "RemoveScope") => Exists(new, s)
    BY <1>6 DEF DeleteFits
  <1>8. Does(step, "RemoveExclusions") => "notFound" \in step.tolerates
    BY <1>1, <1>7 DEF DeleteFits, Does
  <1>9. ASSUME Does(step, "RemoveScope") PROVE Exists(new, s)
    <2>1. step \in Ahead(Tail(steps))
      BY <1>1, <1>7, <1>9 DEF Does, BatchOps
    <2>2. Exists(srv, s) /\ head.do.op # "RemoveScope"
      BY <1>1, <1>2, <1>9, <2>1 DEF DeleteFits, Does, Before
    <2>3. c.op \notin {"AddScope", "RemoveScope"}
      BY <1>3, <2>2 DEF DeletingOps
    <2>4. /\ srv.scopes[s] \in ScopeConfig
          /\ Run(srv, s, c).outcome # "refused" => new.scopes[s] = Applied(srv.scopes[s], c)
          /\ Run(srv, s, c).outcome = "refused" => new = srv
      BY <2>2, <2>3, RunApplies DEF Exists, Server
    <2>5. Applied(srv.scopes[s], c) \in ScopeConfig
      BY <2>4, AppliedType
    <2>6. QED
      BY <2>2, <2>4, <2>5, AbsentIsNoValue DEF Exists
  <1>10. QED
    BY <1>8, <1>9

-----------------------------------------------------------------------------
(* What a lookup decides *)

\* The step that a lookup puts in its own place, or that it puts none.
Decides(srv, steps, rest) ==
    LET next == Head(steps).do
        Puts(op, arg) ==
          /\ rest # << >> /\ Tail(rest) = Tail(steps)
          /\ Head(rest).do = [op |-> op, arg |-> arg]
    IN  /\ next.op = "SetupFailover" =>
             IF srv.rels[next.arg.name] # None
             THEN Puts("AddToRelationship", next.arg.name)
             ELSE Puts("CreateRelationship", next.arg)
        /\ next.op = "CleanupRelationship" =>
             IF srv.rels[next.arg] # None /\ srv.rels[next.arg].members = {}
             THEN Puts("RemoveRelationship", next.arg)
             ELSE rest = Tail(steps)

\* What a plan that has looked a relationship up says of it.
LEMMA LookupDecides ==
    ASSUME IInv, NEW r \in Requests, _fetch_failover_by_name(r)
    PROVE  /\ pc[r] \in {"create", "converge", "delete"}
           /\ todo[r] \in Seq(Step) /\ todo[r] # << >>
           /\ Head(todo[r]).do.op \in LookupOps
           /\ \E rest \in Seq(Step) :
                /\ Proceed(r, pc[r], rest)
                /\ Advance(todo[r], Head(todo[r]).do, rest)
                /\ Decides(server, todo[r], rest)
  <1> DEFINE next == Head(todo[r])
             attach == Tolerant("AddToRelationship", next.do.arg.name, {"alreadyExists"})
             create == Call("CreateRelationship", next.do.arg)
             first == IF server.rels[next.do.arg.name] # None THEN attach ELSE create
             empty == server.rels[next.do.arg] # None
                        /\ server.rels[next.do.arg].members = {}
             remove == Call("RemoveRelationship", next.do.arg)
  <1>1. PICK rest \in Seq(Step) :
          /\ Proceed(r, pc[r], rest)
          /\ Advance(todo[r], next.do, rest)
          /\ next.do.op \in LookupOps
          /\ pc[r] \in {"create", "converge", "delete"} /\ todo[r] # << >>
    BY LookupAdvances
  <1>2. todo[r] \in Seq(Step) /\ r \in DOMAIN todo
    BY DEF IInv, Control, ControlType
  <1>3. next \in Step /\ Tail(todo[r]) \in Seq(Step)
    BY <1>1, <1>2, AheadHead
  <1>4. todo' = [todo EXCEPT ![r] = rest]
    BY <1>1 DEF Proceed
  <1>5. \/ next.do.op = "SetupFailover" /\ todo' = [todo EXCEPT ![r] = <<first>> \o Tail(todo[r])]
        \/ /\ next.do.op = "CleanupRelationship"
           /\ todo' = [todo EXCEPT ![r] = When(empty, <<remove>>) \o Tail(todo[r])]
    BY DEF _fetch_failover_by_name, Proceed
  <1>6. /\ attach.do = [op |-> "AddToRelationship", arg |-> next.do.arg.name]
        /\ create.do = [op |-> "CreateRelationship", arg |-> next.do.arg]
        /\ remove.do = [op |-> "RemoveRelationship", arg |-> next.do.arg]
    BY DEF Tolerant, Call
  <1>7. /\ next.do.op = "SetupFailover" => next.do.arg \in Failover
        /\ next.do.op = "CleanupRelationship" => next.do.arg \in Names
    BY <1>3 DEF Step, Cmdlet, Batches, Lookups
  <1>8. /\ next.do.op = "SetupFailover" => attach \in Step /\ create \in Step
        /\ next.do.op = "CleanupRelationship" => remove \in Step
    <2>1. ASSUME next.do.op = "SetupFailover" PROVE attach \in Step /\ create \in Step
      <3>1. next.do.arg \in Failover /\ next.do.arg.name \in Names
        BY <1>7, <2>1 DEF Failover
      <3>2. /\ [op |-> "AddToRelationship", arg |-> next.do.arg.name] \in Cmdlet
            /\ [op |-> "CreateRelationship", arg |-> next.do.arg] \in Cmdlet
        BY <3>1 DEF Cmdlet
      <3>3. QED
        BY <3>2, TolerantType, CallType, ToleratedKinds
    <2>2. ASSUME next.do.op = "CleanupRelationship" PROVE remove \in Step
      <3>1. [op |-> "RemoveRelationship", arg |-> next.do.arg] \in Cmdlet
        BY <1>7, <2>2 DEF Cmdlet
      <3>2. QED
        BY <3>1, CallType
    <2>3. QED
      BY <2>1, <2>2
  <1> HIDE DEF attach, create, empty, remove
  <1>9. Decides(server, todo[r], rest)
    <2>1. CASE next.do.op = "SetupFailover"
      <3>1. rest = <<first>> \o Tail(todo[r]) /\ first \in Step
        BY <1>2, <1>4, <1>5, <1>8, <2>1
      <3>2. /\ first.do = IF server.rels[next.do.arg.name] # None
                          THEN [op |-> "AddToRelationship", arg |-> next.do.arg.name]
                          ELSE [op |-> "CreateRelationship", arg |-> next.do.arg]
        BY <1>6
      <3> HIDE DEF first
      <3>3. rest # << >> /\ Head(rest) = first /\ Tail(rest) = Tail(todo[r])
        BY <1>3, <3>1, ConsParts
      <3>4. QED
        BY <2>1, <3>2, <3>3 DEF Decides
    <2>2. CASE next.do.op = "CleanupRelationship"
      <3>1. rest = When(empty, <<remove>>) \o Tail(todo[r]) /\ remove \in Step
        BY <1>2, <1>4, <1>5, <1>8, <2>2
      <3>2. CASE empty
        <4>1. rest = <<remove>> \o Tail(todo[r]) /\ remove \in Step
          BY <3>1, <3>2 DEF When
        <4>2. rest # << >> /\ Head(rest) = remove /\ Tail(rest) = Tail(todo[r])
          BY <1>3, <4>1, ConsParts
        <4>3. QED
          BY <1>6, <2>2, <3>2, <4>2 DEF Decides, empty
      <3>3. CASE ~empty
        <4>1. rest = Tail(todo[r])
          BY <1>3, <3>1, <3>3, ConsParts DEF When
        <4>2. QED
          BY <2>2, <3>3, <4>1 DEF Decides, empty
      <3>4. QED
        BY <3>2, <3>3
    <2>3. QED
      BY <1>1, <2>1, <2>2 DEF LookupOps
  <1>10. QED
    BY <1>1, <1>2, <1>9

\* What is ahead after a lookup: what was ahead, and what it has decided on.
LEMMA LookupAhead ==
    ASSUME NEW srv, NEW steps \in Seq(Step), NEW rest \in Seq(Step), steps # << >>,
           Advance(steps, Head(steps).do, rest), Head(steps).do.op \in LookupOps,
           Decides(srv, steps, rest)
    PROVE  /\ Ahead(steps) = {Head(steps)} \cup Ahead(Tail(steps))
           /\ Ahead(Tail(steps)) \subseteq Ahead(rest)
           /\ \A step \in Ahead(rest) \ Ahead(Tail(steps)) : step = Head(rest)
           /\ rest # Tail(steps) => Head(rest) \in Ahead(rest)
           /\ \/ rest = Tail(steps) /\ Head(steps).do.op = "CleanupRelationship"
              \/ /\ rest # << >>
                 /\ \/ /\ Head(steps).do.op = "SetupFailover"
                       /\ srv.rels[Head(steps).do.arg.name] = None =>
                            /\ Head(rest).do.op = "CreateRelationship"
                            /\ Head(rest).do.arg = Head(steps).do.arg
                    \/ /\ Head(steps).do.op = "CleanupRelationship"
                       /\ Head(rest).do.op = "RemoveRelationship"
                       /\ Head(rest).do.arg = Head(steps).do.arg
                       /\ srv.rels[Head(steps).do.arg] # None
                       /\ srv.rels[Head(steps).do.arg].members = {}
  <1>1. /\ Ahead(steps) = {Head(steps)} \cup Ahead(Tail(steps))
        /\ \/ rest = Tail(steps)
           \/ rest # << >> /\ Ahead(rest) = {Head(rest)} \cup Ahead(Tail(steps))
    BY AdvanceAhead
  <1>2. CASE Head(steps).do.op = "SetupFailover"
    <2>1. rest # << >> /\ Ahead(rest) = {Head(rest)} \cup Ahead(Tail(rest))
          /\ Tail(rest) = Tail(steps)
      BY <1>2, AheadHead DEF Decides
    <2>2. srv.rels[Head(steps).do.arg.name] = None =>
            Head(rest).do = [op |-> "CreateRelationship", arg |-> Head(steps).do.arg]
      BY <1>2 DEF Decides
    <2>3. QED
      BY <1>1, <1>2, <2>1, <2>2
  <1>3. CASE Head(steps).do.op = "CleanupRelationship"
    <2>1. \/ rest = Tail(steps)
          \/ /\ rest # << >>
             /\ Head(rest).do = [op |-> "RemoveRelationship", arg |-> Head(steps).do.arg]
             /\ srv.rels[Head(steps).do.arg] # None
             /\ srv.rels[Head(steps).do.arg].members = {}
      BY <1>3 DEF Decides
    <2>2. CASE rest = Tail(steps)
      BY <1>1, <1>3, <2>2
    <2>3. CASE rest # Tail(steps)
      <3>1. /\ Head(rest).do.op = "RemoveRelationship"
            /\ Head(rest).do.arg = Head(steps).do.arg
        BY <2>1, <2>3
      <3>2. Ahead(rest) = {Head(rest)} \cup Ahead(Tail(steps))
        BY <1>1, <2>3
      <3>3. QED
        BY <1>1, <1>3, <2>1, <2>3, <3>1, <3>2
    <2>4. QED
      BY <2>2, <2>3
  <1>4. QED
    BY <1>2, <1>3 DEF LookupOps

\* A write that sets up a relationship finds none of that name, and is in none.
LEMMA SetsUpAnew ==
    ASSUME NEW srv \in Server, NEW s \in Scopes, NEW desired \in Payload, NEW owner,
           NEW steps \in Seq(Step), NEW rest \in Seq(Step), steps # << >>,
           Advance(steps, Head(steps).do, rest), Does(Head(steps), "SetupFailover"),
           JoinsAsAsked(steps, desired), WriteFits(srv, s, steps, desired, owner),
           owner[desired.failover.name] = s
    PROVE  /\ desired.failover # None /\ Head(steps).do.arg = desired.failover
           /\ RelationshipsOf(srv, s) = {}
           /\ srv.rels[desired.failover.name] = None
  <1> DEFINE head == Head(steps)
             n == desired.failover.name
  <1>1. Ahead(steps) = {head} \cup Ahead(Tail(steps))
    BY AheadHead
  <1>2. \A step \in Ahead(Tail(steps)) : Before(head.do.op, step.do.op)
    BY AdvanceSuccessor, OrderSuccessor DEF WriteFits, Fitting
  <1>3. desired.failover # None /\ head.do.arg = desired.failover
    BY <1>1 DEF JoinsAsAsked, Does
  <1>4. \A step \in Ahead(steps) : step.do.op \notin Leaves
    BY <1>1, <1>2 DEF Before, Joins, Leaves, Does
  <1>5. JoinsAhead(steps)
    BY <1>1 DEF JoinsAhead, Joins, Does
  <1>6. RelationshipsOf(srv, s) = {}
    BY <1>4, <1>5 DEF WriteFits, Parts, LeavesAhead, Does, Leaves
  <1>7. n \in Names
    BY <1>3 DEF Payload, Failover
  <1>8. ~Lists(srv, n, s)
    BY <1>6, <1>7, RelationshipsOfLists
  <1>9. srv.rels[n] = None
    BY <1>4, <1>7, <1>8 DEF WriteFits, Fitting, OwnListed, Leaves
  <1>10. QED
    BY <1>3, <1>6, <1>9

\* What all writes have in common survives a lookup.
LEMMA LookupFitting ==
    ASSUME NEW srv \in Server, NEW s \in Scopes, NEW owner,
           NEW steps \in Seq(Step), NEW rest \in Seq(Step), steps # << >>,
           Advance(steps, Head(steps).do, rest), Head(steps).do.op \in LookupOps,
           Decides(srv, steps, rest), MembersOwn(srv, owner),
           Head(steps).do.op = "SetupFailover" =>
             srv.rels[Head(steps).do.arg.name] = None,
           Fitting(srv, s, steps, owner)
    PROVE  Fitting(srv, s, rest, owner)
  <1> DEFINE head == Head(steps)
             Removes(step, n) ==
               /\ step.do.op \in {"CleanupRelationship", "RemoveRelationship"}
               /\ step.do.arg = n
  <1>1. /\ Ahead(steps) = {head} \cup Ahead(Tail(steps))
        /\ Ahead(Tail(steps)) \subseteq Ahead(rest)
        /\ \A step \in Ahead(rest) \ Ahead(Tail(steps)) : step = Head(rest)
        /\ rest # Tail(steps) => Head(rest) \in Ahead(rest)
    BY LookupAhead
  <1>2. \/ rest = Tail(steps) /\ head.do.op = "CleanupRelationship"
        \/ /\ rest # << >>
           /\ \/ /\ head.do.op = "SetupFailover"
                 /\ Head(rest).do.op = "CreateRelationship"
                 /\ Head(rest).do.arg = head.do.arg
              \/ /\ head.do.op = "CleanupRelationship"
                 /\ Head(rest).do.op = "RemoveRelationship"
                 /\ Head(rest).do.arg = head.do.arg
                 /\ srv.rels[head.do.arg] # None
                 /\ srv.rels[head.do.arg].members = {}
    BY LookupAhead
  <1>12. \A step \in Ahead(rest) : step \notin Ahead(Tail(steps)) =>
           /\ step.do.op \in {"CreateRelationship", "RemoveRelationship"}
           /\ step.do.op = "RemoveRelationship" =>
                step.do.arg = head.do.arg /\ head.do.op = "CleanupRelationship"
    <2>1. SUFFICES ASSUME NEW step \in Ahead(rest), step \notin Ahead(Tail(steps))
                   PROVE  /\ step.do.op \in {"CreateRelationship", "RemoveRelationship"}
                          /\ step.do.op = "RemoveRelationship" =>
                               /\ step.do.arg = head.do.arg
                               /\ head.do.op = "CleanupRelationship"
      OBVIOUS
    <2>2. step = Head(rest) /\ rest # Tail(steps)
      BY <1>1, <2>1
    <2>3. QED
      BY <1>2, <2>2
  <1>13. rest # Tail(steps) =>
           \/ Head(rest).do.op = "CreateRelationship" /\ head.do.op = "SetupFailover"
              /\ Head(rest).do.arg = head.do.arg
           \/ /\ Head(rest).do.op = "RemoveRelationship" /\ Head(rest).do.arg = head.do.arg
              /\ srv.rels[head.do.arg] # None
              /\ srv.rels[head.do.arg].members = {}
    BY <1>2
  <1>3. InOrder(rest) /\ DecidedNext(rest)
    BY AdvanceSuccessor, OrderSuccessor DEF Fitting
  <1>4. LooksAfterLeaving(rest)
    BY LooksAdvances DEF Fitting
  <1>5. rest # << >> /\ rest = Tail(steps) => Head(rest).do.op \notin Decided
    <2>1. rest # << >> => Head(rest) \in Ahead(rest)
      BY AheadHead
    <2>2. QED
      BY <2>1 DEF Fitting, DecidedNext
  <1> HIDE DEF head
  <1>6. LeavesOwn(srv, s, rest)
    BY <1>1, <1>12 DEF Fitting, LeavesOwn, Does
  <1>7. LeavesOwned(s, rest, owner)
    BY <1>1, <1>12 DEF Fitting, LeavesOwned, Leaves
  <1>8. AsFound(srv, s, rest)
    <2>1. CASE rest = Tail(steps)
      BY <1>5, <2>1 DEF AsFound, Decided, Does
    <2>2. CASE rest # Tail(steps)
      BY <1>2, <1>13, <2>2 DEF AsFound, Does, head
    <2>3. QED
      BY <2>1, <2>2
  <1>9. ASSUME NEW n \in Names, owner[n] = s, srv.rels[n] # None
        PROVE  Lists(srv, n, s) \/ \E step \in Ahead(rest) : Removes(step, n)
    <2>1. Lists(srv, n, s) \/ \E step \in Ahead(steps) : Removes(step, n)
      BY <1>9 DEF Fitting, OwnListed
    <2>2. CASE Removes(head, n) /\ rest = Tail(steps)
      <3>1. srv.rels[n].members # {}
        BY <1>5, <1>9, <2>2 DEF Decides, Decided, LookupOps, head
      <3>2. srv.rels[n] \in Relationship
        BY <1>9 DEF Server
      <3>3. PICK t \in Scopes : t \in srv.rels[n].members
        BY <3>1, <3>2 DEF Relationship
      <3>4. Lists(srv, n, t)
        BY <1>9, <3>3 DEF Lists
      <3>5. owner[n] = t
        BY <3>4 DEF MembersOwn
      <3>6. QED
        BY <1>9, <3>4, <3>5
    <2>3. CASE Removes(head, n) /\ rest # Tail(steps)
      BY <1>1, <1>2, <2>3
    <2>4. CASE ~Removes(head, n)
      BY <1>1, <2>1, <2>4
    <2>5. QED
      BY <2>2, <2>3, <2>4
  <1>10. OwnListed(srv, s, rest, owner)
    BY <1>9 DEF OwnListed
  <1>11. QED
    BY <1>3, <1>4, <1>6, <1>7, <1>8, <1>10 DEF Fitting

\* A write that fits still fits when it has looked a relationship up.
LEMMA WriteFitsLooked ==
    ASSUME NEW srv \in Server, NEW s \in Scopes, NEW desired \in Payload, NEW owner,
           NEW steps \in Seq(Step), NEW rest \in Seq(Step), steps # << >>,
           Advance(steps, Head(steps).do, rest), Head(steps).do.op \in LookupOps,
           Decides(srv, steps, rest), MembersOwn(srv, owner),
           desired.failover # None => owner[desired.failover.name] = s,
           Writing(srv.scopes[s], steps, desired), JoinsAsAsked(steps, desired),
           WriteFits(srv, s, steps, desired, owner)
    PROVE  WriteFits(srv, s, rest, desired, owner)
  <1> DEFINE head == Head(steps)
             held == srv.scopes[s]
  <1>1. /\ Ahead(steps) = {head} \cup Ahead(Tail(steps))
        /\ Ahead(Tail(steps)) \subseteq Ahead(rest)
        /\ \A step \in Ahead(rest) \ Ahead(Tail(steps)) : step = Head(rest)
        /\ rest # Tail(steps) => Head(rest) \in Ahead(rest)
    BY LookupAhead
  <1>2. \A step \in Ahead(Tail(steps)) : Before(head.do.op, step.do.op)
    BY AdvanceSuccessor, OrderSuccessor DEF WriteFits, Fitting
  <1>3. Does(head, "SetupFailover") =>
          /\ desired.failover # None /\ head.do.arg = desired.failover
          /\ RelationshipsOf(srv, s) = {}
          /\ srv.rels[desired.failover.name] = None
    <2>1. Does(head, "SetupFailover") => desired.failover # None
      BY <1>1 DEF JoinsAsAsked, Does
    <2>2. QED
      BY <2>1, SetsUpAnew
  <1>4. \/ rest = Tail(steps) /\ head.do.op = "CleanupRelationship"
        \/ /\ rest # << >>
           /\ \/ /\ head.do.op = "SetupFailover"
                 /\ Head(rest).do.op = "CreateRelationship"
              \/ /\ head.do.op = "CleanupRelationship"
                 /\ Head(rest).do.op = "RemoveRelationship"
    <2>1. \/ rest = Tail(steps) /\ Head(steps).do.op = "CleanupRelationship"
          \/ /\ rest # << >>
             /\ \/ /\ Head(steps).do.op = "SetupFailover"
                   /\ srv.rels[Head(steps).do.arg.name] = None =>
                        /\ Head(rest).do.op = "CreateRelationship"
                        /\ Head(rest).do.arg = Head(steps).do.arg
                \/ /\ Head(steps).do.op = "CleanupRelationship"
                   /\ Head(rest).do.op = "RemoveRelationship"
                   /\ Head(rest).do.arg = Head(steps).do.arg
                   /\ srv.rels[Head(steps).do.arg] # None
                   /\ srv.rels[Head(steps).do.arg].members = {}
      BY LookupAhead
    <2>2. \/ rest = Tail(steps) /\ head.do.op = "CleanupRelationship"
          \/ /\ rest # << >>
             /\ \/ /\ head.do.op = "SetupFailover"
                   /\ srv.rels[head.do.arg.name] = None =>
                        Head(rest).do.op = "CreateRelationship"
                \/ /\ head.do.op = "CleanupRelationship"
                   /\ Head(rest).do.op = "RemoveRelationship"
      BY <2>1
    <2> HIDE DEF head
    <2>3. QED
      BY <1>3, <2>2 DEF Does
  <1>5. Fitting(srv, s, rest, owner)
    BY <1>3, LookupFitting DEF WriteFits, Does
  <1>6. Base(held, rest) = Base(held, steps) /\ Base(held, steps) = held
    <2>1. ~StartsAnew(steps)
      BY DEF StartsAnew, Does, LookupOps
    <2>2. rest # << >> /\ rest = Tail(steps) => Head(rest) \in Ahead(Tail(steps))
      BY AheadHead
    <2>3. ~StartsAnew(rest)
      BY <1>4, <2>2 DEF StartsAnew, Does, Writing
    <2>4. QED
      BY <2>1, <2>3 DEF Base
  <1>7. held \in ScopeConfig
    BY DEF Writing, StartsAnew, Does, LookupOps, Server
  <1>8. Applied(held, head.do) = held
    BY DEF Applied, LookupOps
  <1>9. head.do.op \in WritingOps
    BY <1>1 DEF Writing
  <1>10. RangesFit(held, rest) /\ ExclusionsFit(held, rest)
    BY <1>2, <1>6, <1>7, <1>8, <1>9, RangesFitAdvance, ExclusionsFitAdvance DEF WriteFits
  <1>11. \A step \in Ahead(rest) : step \notin Ahead(Tail(steps)) =>
           \/ Does(step, "CreateRelationship") /\ Does(head, "SetupFailover")
           \/ Does(step, "RemoveRelationship") /\ Does(head, "CleanupRelationship")
    <2>1. SUFFICES ASSUME NEW step \in Ahead(rest), step \notin Ahead(Tail(steps))
                   PROVE  \/ Does(step, "CreateRelationship") /\ Does(head, "SetupFailover")
                          \/ Does(step, "RemoveRelationship") /\ Does(head, "CleanupRelationship")
      OBVIOUS
    <2>2. step = Head(rest) /\ rest # Tail(steps)
      BY <1>1, <2>1
    <2>3. QED
      BY <1>4, <2>2 DEF Does
  <1>12. Does(head, "SetupFailover") =>
           /\ JoinsAhead(steps) /\ JoinsAhead(rest)
           /\ \A step \in Ahead(rest) : step.do.op \notin Leaves
    <2>1. SUFFICES ASSUME Does(head, "SetupFailover")
                   PROVE  /\ JoinsAhead(steps) /\ JoinsAhead(rest)
                          /\ \A step \in Ahead(rest) : step.do.op \notin Leaves
      OBVIOUS
    <2>2. Head(rest) \in Ahead(rest) /\ Head(rest).do.op = "CreateRelationship"
      BY <1>4, <2>1, AheadHead DEF Does
    <2>3. \A step \in Ahead(rest) : step.do.op \notin Leaves
      BY <1>2, <1>11, <2>1 DEF Before, Does, Joins, Leaves
    <2>4. QED
      BY <1>1, <2>1, <2>2, <2>3 DEF JoinsAhead, Joins, Does
  <1>13. Does(head, "CleanupRelationship") =>
           /\ JoinsAhead(rest) <=> JoinsAhead(steps)
           /\ LeavesAhead(rest) <=> LeavesAhead(steps)
    BY <1>1, <1>11 DEF JoinsAhead, LeavesAhead, Joins, Does
  <1>14. Does(head, "SetupFailover") \/ Does(head, "CleanupRelationship")
    BY DEF Does, LookupOps
  <1>15. Parts(srv, s, rest, desired)
    BY <1>3, <1>13, <1>14 DEF WriteFits, Parts
  <1>16. Arrives(srv, s, rest, desired)
    <2>1. CASE Does(head, "SetupFailover")
      BY <1>12, <2>1 DEF Arrives
    <2>2. CASE Does(head, "CleanupRelationship")
      BY <1>1, <1>13, <2>2 DEF WriteFits, Arrives, Does, Leaves
    <2>3. QED
      BY <1>14, <2>1, <2>2
  <1>17. Follows(srv, s, rest, desired)
    <2>1. desired.failover # None => \E step \in Ahead(rest) : Does(step, "Replicate")
      BY <1>1, <1>14 DEF WriteFits, Follows, Does
    <2>2. \A step \in Ahead(rest) :
            /\ Does(step, "Replicate") => desired.failover # None
            /\ step.do.op \in {"RemoveRouter", "RemoveBootHost", "RemoveBootFile"} =>
                 "notFound" \in step.tolerates
      BY <1>1, <1>11 DEF WriteFits, Follows, Does
    <2>3. (\E step \in Ahead(rest) : Does(step, "Replicate")) => rest # << >>
      BY AheadEmpty
    <2>4. QED
      BY <2>1, <2>2, <2>3 DEF Follows
  <1>18. QED
    BY <1>5, <1>6, <1>10, <1>15, <1>16, <1>17 DEF WriteFits

\* So does a delete.
LEMMA DeleteFitsLooked ==
    ASSUME NEW srv \in Server, NEW s \in Scopes, NEW owner,
           NEW steps \in Seq(Step), NEW rest \in Seq(Step), steps # << >>,
           Advance(steps, Head(steps).do, rest), Head(steps).do.op \in LookupOps,
           Decides(srv, steps, rest), MembersOwn(srv, owner),
           Deleting(srv, s, steps), DeleteFits(srv, s, steps, owner)
    PROVE  DeleteFits(srv, s, rest, owner)
  <1>1. /\ Ahead(steps) = {Head(steps)} \cup Ahead(Tail(steps))
        /\ \A step \in Ahead(rest) \ Ahead(Tail(steps)) : step = Head(rest)
    BY LookupAhead
  <1>2. Head(steps).do.op = "CleanupRelationship"
    BY <1>1 DEF Deleting, DeletingOps, LookupOps
  <1>3. rest = Tail(steps) \/ Head(rest).do.op = "RemoveRelationship"
    BY <1>2, LookupAhead
  <1>4. Fitting(srv, s, rest, owner)
    BY <1>2, LookupFitting DEF DeleteFits
  <1>5. ASSUME NEW step \in Ahead(rest)
        PROVE  /\ Does(step, "RemoveExclusions") => "notFound" \in step.tolerates
               /\ Does(step, "RemoveScope") => Exists(srv, s)
    <2>1. CASE step \in Ahead(Tail(steps))
      BY <1>1, <2>1 DEF DeleteFits
    <2>2. CASE step \notin Ahead(Tail(steps))
      <3>1. step = Head(rest) /\ rest # Tail(steps)
        BY <1>1, <1>5, <2>2
      <3>2. QED
        BY <1>3, <3>1 DEF Does
    <2>3. QED
      BY <2>1, <2>2
  <1>6. QED
    BY <1>4, <1>5 DEF DeleteFits

-----------------------------------------------------------------------------
(* What writes of other scopes leave alone *)

\* A cmdlet that finds what it needs touches only relationships that are for its
\* scope, and makes no other scope a member of one.
LEMMA RunOwn ==
    ASSUME NEW srv \in Server, NEW s \in Scopes, NEW c \in Cmdlet,
           NEW desired, NEW owner, Finds(srv, s, c, desired),
           MembersOwn(srv, owner),
           c.op = "CreateRelationship" => Exists(srv, s) /\ owner[desired.failover.name] = s,
           c.op = "RemoveRelationship" => owner[c.arg] = s
    PROVE  /\ \A n \in Names : owner[n] # s => Run(srv, s, c).server.rels[n] = srv.rels[n]
           /\ MembersOwn(Run(srv, s, c).server, owner)
  <1> DEFINE new == Run(srv, s, c).server
  <1>1. \A n \in Names : owner[n] # s => new.rels[n] = srv.rels[n]
    <2>1. CASE c.op \notin RelationshipOps \cup {"CreateRelationship", "AddToRelationship"}
      <3>1. new.rels = srv.rels
        BY <2>1, RunKeepsRels
      <3>2. QED
        BY <3>1
    <2>2. CASE c.op = "CreateRelationship"
      <3>1. OthersSame(srv, new, c.arg.name) /\ owner[c.arg.name] = s
        BY <2>2, RunCreatesRelationship DEF Finds
      <3>2. QED
        BY <3>1 DEF OthersSame
    <2>3. CASE c.op = "RemoveFromRelationship"
      <3>1. Lists(srv, c.arg, s) /\ c.arg \in Names
        BY <2>3, RelationshipsOfLists DEF Finds
      <3>2. OthersSame(srv, new, c.arg) /\ owner[c.arg] = s
        BY <2>3, <3>1, RunLeaves DEF MembersOwn
      <3>3. QED
        BY <3>2 DEF OthersSame
    <2>4. CASE c.op = "RemoveRelationship"
      <3>1. OthersSame(srv, new, c.arg)
        BY <2>4, RunRemovesRelationship DEF Finds
      <3>2. QED
        BY <2>4, <3>1 DEF OthersSame
    <2>5. CASE c.op = "TuneRelationship"
      <3>1. /\ Lists(srv, c.arg.name, s) /\ srv.rels[c.arg.name] # None
            /\ c.arg.name \in Names
        BY <2>5, ConfigArgs DEF Finds, JoinedAsAsked, Lists, Failover
      <3>2. OthersSame(srv, new, c.arg.name) /\ owner[c.arg.name] = s
        BY <2>5, <3>1, RunTunes DEF MembersOwn
      <3>3. QED
        BY <3>2 DEF OthersSame
    <2>6. QED
      BY <2>1, <2>2, <2>3, <2>4, <2>5 DEF Finds, RelationshipOps
  <1>2. ASSUME NEW n \in Names, NEW t \in Scopes, Lists(new, n, t)
        PROVE  owner[n] = t
    <2>1. CASE Lists(srv, n, t)
      BY <2>1 DEF MembersOwn
    <2>2. CASE ~Lists(srv, n, t)
      BY <1>2, <2>2, RunLists DEF Finds
    <2>3. QED
      BY <2>1, <2>2
  <1>3. QED
    BY <1>1, <1>2 DEF MembersOwn

\* All that a scope's writes are about is as it was.
SameFor(srv, new, t, owner) ==
    /\ new.scopes[t] = srv.scopes[t]
    /\ RelationshipsOf(new, t) = RelationshipsOf(srv, t)
    /\ \A n \in Names : owner[n] = t => new.rels[n] = srv.rels[n]
    /\ \A n \in RelationshipsOf(srv, t) : owner[n] = t
    /\ t \in srv.synced => t \in new.synced

\* That is what a cmdlet about one scope leaves to another.
LEMMA RunSameFor ==
    ASSUME NEW srv \in Server, NEW s \in Scopes, NEW c \in Cmdlet,
           NEW desired, NEW owner, Finds(srv, s, c, desired),
           MembersOwn(srv, owner),
           c.op = "CreateRelationship" => Exists(srv, s) /\ owner[desired.failover.name] = s,
           c.op = "RemoveRelationship" => owner[c.arg] = s,
           NEW t \in Scopes, t # s
    PROVE  SameFor(srv, Run(srv, s, c).server, t, owner)
  <1> DEFINE new == Run(srv, s, c).server
  <1>1. /\ \A n \in Names : owner[n] # s => new.rels[n] = srv.rels[n]
        /\ MembersOwn(new, owner)
    BY RunOwn
  <1>2. new.scopes[t] = srv.scopes[t]
    BY RunElsewhere
  <1>3. /\ \A n \in RelationshipsOf(srv, t) : n \in Names /\ owner[n] = t
        /\ \A n \in RelationshipsOf(new, t) : n \in Names /\ owner[n] = t
    BY <1>1, RelationshipsOfLists DEF MembersOwn
  <1>4. \A n \in Names : owner[n] = t => new.rels[n] = srv.rels[n]
    BY <1>1
  <1>5. ASSUME NEW n PROVE n \in RelationshipsOf(new, t) <=> n \in RelationshipsOf(srv, t)
    BY <1>3, <1>4 DEF RelationshipsOf
  <1>6. t \in srv.synced => t \in new.synced
    <2>1. c.op = "RemoveRelationship" => ~Lists(srv, c.arg, t)
      BY ConfigArgs DEF MembersOwn
    <2>2. QED
      BY <2>1, RunSynced
  <1>7. QED
    BY <1>2, <1>3, <1>4, <1>5, <1>6 DEF SameFor

\* It is read as before.
LEMMA ReadSame ==
    ASSUME NEW srv, NEW new, NEW t, NEW owner, SameFor(srv, new, t, owner)
    PROVE  Assembled(new, t) = Assembled(srv, t) /\ Reading(new, t) = Reading(srv, t)
  <1>1. failover_of(new, t) = failover_of(srv, t)
    <2>1. CASE RelationshipsOf(srv, t) = {}
      BY <2>1 DEF SameFor, failover_of
    <2>2. CASE RelationshipsOf(srv, t) # {}
      <3> DEFINE n == CHOOSE n \in RelationshipsOf(srv, t) : TRUE
      <3>1. n \in RelationshipsOf(srv, t)
        BY <2>2
      <3>2. n \in Names /\ owner[n] = t
        BY <3>1 DEF SameFor, RelationshipsOf
      <3> HIDE DEF n
      <3>3. new.rels[n] = srv.rels[n]
        BY <3>2 DEF SameFor
      <3>4. failover_of(srv, t) =
              [name |-> n, peer |-> srv.rels[n].peer, tuning |-> srv.rels[n].tuning]
        BY <2>2 DEF failover_of, n
      <3>5. RelationshipsOf(new, t) = RelationshipsOf(srv, t)
        BY DEF SameFor
      <3>6. failover_of(new, t) =
              [name |-> n, peer |-> new.rels[n].peer, tuning |-> new.rels[n].tuning]
        BY <2>2, <3>5 DEF failover_of, n
      <3>7. QED
        BY <3>3, <3>4, <3>6
    <2>3. QED
      BY <2>1, <2>2
  <1>2. new.scopes[t] = srv.scopes[t]
    BY DEF SameFor
  <1>3. Assembled(new, t) = Assembled(srv, t)
    BY <1>1, <1>2 DEF Assembled
  <1>4. QED
    BY <1>2, <1>3 DEF Reading

\* It rests as before.
LEMMA RestedSame ==
    ASSUME NEW srv, NEW new, NEW t, NEW owner, SameFor(srv, new, t, owner),
           Rested(srv, t, owner)
    PROVE  Rested(new, t, owner)
  <1>1. Reading(new, t) = Reading(srv, t)
    BY ReadSame
  <1>2. RelationshipsOf(new, t) # {} => t \in new.synced
    BY DEF SameFor, Rested
  <1>3. OwnListed(new, t, << >>, owner)
    BY DEF SameFor, Rested, OwnListed, Lists
  <1>4. QED
    BY <1>1, <1>2, <1>3 DEF Rested

\* Its writes fit as before,
LEMMA FittingSame ==
    ASSUME NEW srv, NEW new, NEW t, NEW owner, SameFor(srv, new, t, owner),
           NEW steps \in Seq(Step), Fitting(srv, t, steps, owner),
           steps # << >> /\ Does(Head(steps), "CreateRelationship") =>
             /\ Head(steps).do.arg.name \in Names
             /\ owner[Head(steps).do.arg.name] = t
    PROVE  Fitting(new, t, steps, owner)
  <1>1. LeavesOwn(new, t, steps)
    BY DEF SameFor, Fitting, LeavesOwn
  <1>2. AsFound(new, t, steps)
    <2>1. SUFFICES ASSUME steps # << >> PROVE AsFound(new, t, steps)
      BY DEF AsFound
    <2>2. Head(steps) \in Ahead(steps)
      BY <2>1, AheadHead
    <2>3. Does(Head(steps), "RemoveRelationship") =>
            Head(steps).do.arg \in Names /\ owner[Head(steps).do.arg] = t
      BY <2>2 DEF Fitting, LeavesOwned, Leaves, Does
    <2>4. QED
      BY <2>1, <2>3 DEF SameFor, Fitting, AsFound
  <1>3. OwnListed(new, t, steps, owner)
    BY DEF SameFor, Fitting, OwnListed, Lists
  <1>4. QED
    BY <1>1, <1>2, <1>3 DEF Fitting

\* A write fits a server that is the same for its scope and its relationship.
LEMMA WriteFitsSame ==
    ASSUME NEW srv, NEW new, NEW t, NEW owner, SameFor(srv, new, t, owner),
           NEW steps \in Seq(Step), NEW desired \in Payload,
           WriteFits(srv, t, steps, desired, owner), JoinsAsAsked(steps, desired),
           desired.failover # None => owner[desired.failover.name] = t
    PROVE  WriteFits(new, t, steps, desired, owner)
  <1>1. steps # << >> /\ Does(Head(steps), "CreateRelationship") =>
          /\ Head(steps).do.arg.name \in Names
          /\ owner[Head(steps).do.arg.name] = t
    <2>1. SUFFICES ASSUME steps # << >>, Does(Head(steps), "CreateRelationship")
                   PROVE  /\ Head(steps).do.arg.name \in Names
                          /\ owner[Head(steps).do.arg.name] = t
      OBVIOUS
    <2>2. Head(steps) \in Ahead(steps)
      BY <2>1, AheadHead
    <2>3. desired.failover # None /\ Head(steps).do.arg = desired.failover
      BY <2>1, <2>2 DEF JoinsAsAsked, Does
    <2>4. QED
      BY <2>3 DEF Payload, Failover
  <1>2. Fitting(new, t, steps, owner)
    BY <1>1, FittingSame DEF WriteFits
  <1>3. Base(new.scopes[t], steps) = Base(srv.scopes[t], steps)
    BY DEF SameFor
  <1>4. Parts(new, t, steps, desired)
    BY DEF SameFor, WriteFits, Parts
  <1>5. Arrives(new, t, steps, desired)
    <2>1. desired.failover # None => desired.failover.name \in Names
      BY DEF Payload, Failover
    <2>2. desired.failover # None =>
            new.rels[desired.failover.name] = srv.rels[desired.failover.name]
      BY <2>1 DEF SameFor
    <2>3. QED
      BY <2>2 DEF WriteFits, Arrives, JoinedAsAsked, Lists
  <1>6. Follows(new, t, steps, desired)
    BY DEF SameFor, WriteFits, Follows
  <1>7. QED
    BY <1>2, <1>3, <1>4, <1>5, <1>6 DEF WriteFits

\* and its deletes.
LEMMA DeleteFitsSame ==
    ASSUME NEW srv, NEW new, NEW t, NEW owner, SameFor(srv, new, t, owner),
           NEW steps \in Seq(Step), Deleting(srv, t, steps), DeleteFits(srv, t, steps, owner)
    PROVE  DeleteFits(new, t, steps, owner)
  <1>1. steps # << >> => ~Does(Head(steps), "CreateRelationship")
    <2>1. steps # << >> => Head(steps) \in Ahead(steps)
      BY AheadHead
    <2>2. QED
      BY <2>1 DEF Deleting, DeletingOps, Does
  <1>2. Fitting(new, t, steps, owner)
    BY <1>1, FittingSame DEF DeleteFits
  <1>3. QED
    BY <1>2 DEF SameFor, DeleteFits, Exists

-----------------------------------------------------------------------------
(* Writes from their start to their end *)

\* The failover a scope is read to have is that of its relationship.
LEMMA AssembledFailover ==
    ASSUME NEW srv \in Server, NEW s \in Scopes, OneRelationship(srv)
    PROVE  /\ failover_of(srv, s) = None <=> RelationshipsOf(srv, s) = {}
           /\ failover_of(srv, s) # None =>
                /\ failover_of(srv, s).name \in Names
                /\ RelationshipsOf(srv, s) = {failover_of(srv, s).name}
                /\ Lists(srv, failover_of(srv, s).name, s)
                /\ failover_of(srv, s).peer = srv.rels[failover_of(srv, s).name].peer
                /\ failover_of(srv, s).tuning = srv.rels[failover_of(srv, s).name].tuning
  <1>1. CASE RelationshipsOf(srv, s) = {}
    BY <1>1 DEF failover_of
  <1>2. CASE RelationshipsOf(srv, s) # {}
    <2> DEFINE n == CHOOSE n \in RelationshipsOf(srv, s) : TRUE
    <2>1. n \in RelationshipsOf(srv, s)
      BY <1>2
    <2> HIDE DEF n
    <2>2. n \in Names /\ Lists(srv, n, s)
      BY <2>1, RelationshipsOfLists
    <2>3. failover_of(srv, s) =
            [name |-> n, peer |-> srv.rels[n].peer, tuning |-> srv.rels[n].tuning]
      BY <1>2 DEF failover_of, n
    <2>4. RelationshipsOf(srv, s) = {n}
      BY <2>1 DEF OneRelationship
    <2>5. srv.rels[n] \in Relationship
      BY <2>2 DEF Server, Lists
    <2>6. failover_of(srv, s) \in Failover
      BY <2>2, <2>3, <2>5 DEF Relationship, Failover
    <2>7. failover_of(srv, s) # None
      BY <2>6, AbsentIsNoValue
    <2>8. QED
      BY <1>2, <2>2, <2>3, <2>4, <2>7
  <1>3. QED
    BY <1>1, <1>2

\* A plan of _converge_scope, made from a scope at rest, fits.
LEMMA ConvergeStarts ==
    ASSUME NEW srv \in Server, NEW s \in Scopes, NEW owner, NEW desired \in Payload,
           OneRelationship(srv), MembersOwn(srv, owner), Rested(srv, s, owner),
           Reading(srv, s) = "ok", Valid(desired), Assembled(srv, s).mask = desired.mask,
           NEW plan \in Seq(Step), plan = converge_plan(Assembled(srv, s), desired)
    PROVE  WriteFits(srv, s, plan, desired, owner)
  <1> DEFINE current == Assembled(srv, s)
             held == srv.scopes[s]
  <1>1. current \in Payload
    BY AssembledType
  <1>2. /\ current.range = held.range /\ current.exclusions = held.exclusions
        /\ current.failover = failover_of(srv, s)
    BY DEF Assembled
  <1>3. /\ \A step \in Ahead(plan) : step.do.op \in WritingOps \ {"AddScope"}
        /\ LooksAfterLeaving(plan)
    BY <1>1, ConvergeLeads
  <1>4. \A step \in Ahead(plan) : step.do.op \in Leaves =>
          current.failover # None /\ step.do.arg = current.failover.name
    BY <1>1, ConvergeMinds
  <1>5. /\ InOrder(plan)
        /\ \A step \in Ahead(plan) : step.do.op \notin Decided
        /\ RangesFit(current, plan) /\ ExclusionsFit(current, plan)
        /\ desired.failover = None \/ JoinsAhead(plan) =>
             current.failover = None \/ LeavesAhead(plan)
        /\ desired.failover # None => JoinsAhead(plan) \/ Stays(current, desired, plan)
        /\ desired.failover # None /\ plan # << >> =>
             \E step \in Ahead(plan) : Does(step, "Replicate")
        /\ \A step \in Ahead(plan) :
             /\ Does(step, "Replicate") => desired.failover # None
             /\ step.do.op \in {"RemoveRouter", "RemoveBootHost", "RemoveBootFile"} =>
                  "notFound" \in step.tolerates
    BY <1>1, ConvergeFits
  <1> HIDE DEF current
  <1>6. /\ current.failover = None <=> RelationshipsOf(srv, s) = {}
        /\ current.failover # None =>
             /\ current.failover.name \in Names
             /\ RelationshipsOf(srv, s) = {current.failover.name}
             /\ Lists(srv, current.failover.name, s)
             /\ current.failover.peer = srv.rels[current.failover.name].peer
             /\ current.failover.tuning = srv.rels[current.failover.name].tuning
    BY <1>2, AssembledFailover
  <1>7. plan # << >> => Head(plan) \in Ahead(plan)
    BY AheadHead
  <1>8. Base(held, plan) = held
    BY <1>3, <1>7 DEF Base, StartsAnew, Does
  <1>9. RangesFit(held, plan) /\ ExclusionsFit(held, plan)
    BY <1>2, <1>5 DEF RangesFit, ExclusionsFit
  <1>10. Fitting(srv, s, plan, owner)
    <2>1. DecidedNext(plan)
      <3>1. plan # << >> => Ahead(Tail(plan)) \subseteq Ahead(plan)
        BY AheadHead
      <3>2. QED
        BY <1>5, <3>1 DEF DecidedNext
    <2>2. LeavesOwn(srv, s, plan)
      BY <1>4, <1>6 DEF LeavesOwn, Does, Leaves
    <2>3. AsFound(srv, s, plan)
      BY <1>5, <1>7 DEF AsFound, Decided, Does
    <2>4. OwnListed(srv, s, plan, owner)
      BY AheadEmpty DEF Rested, OwnListed
    <2>5. LeavesOwned(s, plan, owner)
      BY <1>4, <1>6 DEF LeavesOwned, MembersOwn
    <2>6. QED
      BY <1>3, <1>5, <2>1, <2>2, <2>3, <2>4, <2>5 DEF Fitting
  <1>11. Parts(srv, s, plan, desired)
    BY <1>5, <1>6 DEF Parts
  <1>12. Arrives(srv, s, plan, desired)
    BY <1>5, <1>6 DEF Arrives, Stays, JoinedAsAsked
  <1>13. Follows(srv, s, plan, desired)
    <2>1. ASSUME desired.failover # None, plan = << >> PROVE s \in srv.synced
      <3>1. ~JoinsAhead(plan)
        BY <2>1, AheadEmpty DEF JoinsAhead
      <3>2. RelationshipsOf(srv, s) # {}
        BY <1>5, <1>6, <2>1, <3>1 DEF Stays
      <3>3. QED
        BY <3>2 DEF Rested
    <2>2. QED
      BY <1>5, <2>1 DEF Follows
  <1>14. QED
    BY <1>8, <1>9, <1>10, <1>11, <1>12, <1>13 DEF WriteFits

\* A plan of create_scope, for a scope that is not there, fits;
LEMMA CreateStarts ==
    ASSUME NEW srv \in Server, NEW s \in Scopes, NEW owner, NEW desired \in Payload,
           AllMembersExist(srv), Rested(srv, s, owner), ~Exists(srv, s), Valid(desired),
           NEW plan \in Seq(Step), plan = create_plan(desired)
    PROVE  WriteFits(srv, s, plan, desired, owner)
  <1>1. LooksAfterLeaving(plan)
    BY CreateLeads
  <1>2. /\ InOrder(plan)
        /\ \A step \in Ahead(plan) :
             /\ step.do.op \notin Decided \cup Leaves \cup
                  {"SetRange", "RemoveExclusions", "RemoveRouter", "RemoveBootHost",
                   "RemoveBootFile"}
             /\ Does(step, "AddExclusions") => "alreadyExists" \in step.tolerates
        /\ desired.failover # None =>
             JoinsAhead(plan) /\ \E step \in Ahead(plan) : Does(step, "Replicate")
        /\ desired.failover = None =>
             ~JoinsAhead(plan) /\ \A step \in Ahead(plan) : ~Does(step, "Replicate")
    BY CreateFits
  <1>3. RelationshipsOf(srv, s) = {}
    BY DEF AllMembersExist
  <1>4. plan # << >> =>
          Head(plan) \in Ahead(plan) /\ Ahead(Tail(plan)) \subseteq Ahead(plan)
    BY AheadHead
  <1>5. Fitting(srv, s, plan, owner)
    <2>1. DecidedNext(plan)
      BY <1>2, <1>4 DEF DecidedNext
    <2>2. LeavesOwn(srv, s, plan) /\ LeavesOwned(s, plan, owner)
      BY <1>2 DEF LeavesOwn, LeavesOwned, Does, Leaves
    <2>3. AsFound(srv, s, plan)
      BY <1>2, <1>4 DEF AsFound, Decided, Does
    <2>4. OwnListed(srv, s, plan, owner)
      BY AheadEmpty DEF Rested, OwnListed
    <2>5. QED
      BY <1>1, <1>2, <2>1, <2>2, <2>3, <2>4 DEF Fitting
  <1>6. \A base : RangesFit(base, plan) /\ ExclusionsFit(base, plan)
    <2>1. TAKE base
    <2>2. \A i \in 1 .. Len(plan) : plan[i] \in Ahead(plan)
      BY DEF Ahead
    <2>3. RangesFit(base, plan)
      BY <1>2, <2>2 DEF RangesFit, Does
    <2>4. ExclusionsFit(base, plan)
      BY <1>2 DEF ExclusionsFit, Does
    <2>5. QED
      BY <2>3, <2>4
  <1>7. Parts(srv, s, plan, desired)
    BY <1>3 DEF Parts
  <1>8. Arrives(srv, s, plan, desired)
    BY <1>2 DEF Arrives
  <1>9. Follows(srv, s, plan, desired)
    BY <1>2, AheadEmpty DEF Follows
  <1>10. QED
    BY <1>5, <1>6, <1>7, <1>8, <1>9 DEF WriteFits

\* and so does one of delete_scope.
LEMMA DeleteStarts ==
    ASSUME NEW srv \in Server, NEW s \in Scopes, NEW owner,
           OneRelationship(srv), MembersOwn(srv, owner), Rested(srv, s, owner),
           Reading(srv, s) = "ok",
           NEW plan \in Seq(Step), plan = delete_plan(Assembled(srv, s))
    PROVE  DeleteFits(srv, s, plan, owner)
  <1> DEFINE current == Assembled(srv, s)
  <1>1. current \in Payload /\ current.failover = failover_of(srv, s)
    BY AssembledType DEF Assembled
  <1>2. LooksAfterLeaving(plan)
    BY <1>1, DeleteLeads
  <1>3. /\ InOrder(plan)
        /\ \A step \in Ahead(plan) :
             /\ step.do.op \notin Decided \cup Joins
             /\ step.do.op \in Leaves =>
                  current.failover # None /\ step.do.arg = current.failover.name
             /\ Does(step, "RemoveExclusions") => "notFound" \in step.tolerates
    BY <1>1, DeletePlanFits
  <1> HIDE DEF current
  <1>4. current.failover # None =>
          /\ current.failover.name \in Names
          /\ RelationshipsOf(srv, s) = {current.failover.name}
          /\ Lists(srv, current.failover.name, s)
    BY <1>1, AssembledFailover
  <1>5. Exists(srv, s)
    BY DEF Reading, Exists
  <1>6. plan # << >> =>
          Head(plan) \in Ahead(plan) /\ Ahead(Tail(plan)) \subseteq Ahead(plan)
    BY AheadHead
  <1>7. DecidedNext(plan)
    BY <1>3, <1>6 DEF DecidedNext
  <1>8. LeavesOwn(srv, s, plan)
    BY <1>3, <1>4 DEF LeavesOwn, Does, Leaves
  <1>9. LeavesOwned(s, plan, owner)
    BY <1>3, <1>4 DEF LeavesOwned, MembersOwn
  <1>10. AsFound(srv, s, plan)
    BY <1>3, <1>6 DEF AsFound, Decided, Does
  <1>11. OwnListed(srv, s, plan, owner)
    BY AheadEmpty DEF Rested, OwnListed
  <1>12. QED
    BY <1>2, <1>3, <1>5, <1>7, <1>8, <1>9, <1>10, <1>11 DEF Fitting, DeleteFits

\* With no step left of a write, the scope is as the request asked for, and rests.
LEMMA WriteEnds ==
    ASSUME NEW srv \in Server, NEW s \in Scopes, NEW owner, NEW desired \in Payload,
           Valid(desired), OneRelationship(srv),
           Writing(srv.scopes[s], << >>, desired),
           WriteFits(srv, s, << >>, desired, owner)
    PROVE  /\ Reading(srv, s) = "ok" /\ Assembled(srv, s) = desired
           /\ desired.failover # None => s \in srv.synced
           /\ Rested(srv, s, owner)
  <1> DEFINE held == srv.scopes[s]
  <1>1. held # None
    BY DEF Writing, StartsAnew
  <1>2. held \in ScopeConfig
    BY <1>1 DEF Server
  <1>3. Base(held, << >>) = held
    BY DEF Base, StartsAnew
  <1>4. Towards(held, << >>, desired)
    BY <1>3 DEF Writing
  <1>5. /\ held.mask = desired.mask /\ held.range = desired.range
        /\ held.params = desired.params /\ held.dns = desired.dns
        /\ held.gateway = desired.gateway
        /\ held.next = desired.next /\ held.file = desired.file
    BY <1>4, AheadEmpty DEF Towards, TowardsRange, TowardsParams, TowardsOptions,
                            TowardsBoot
  <1>6. held.exclusions = desired.exclusions
    BY <1>4, AheadEmpty DEF Towards, TowardsExclusions
  <1>7. ~JoinsAhead(<< >>) /\ ~LeavesAhead(<< >>)
    BY AheadEmpty DEF JoinsAhead, LeavesAhead
  <1>8. desired.failover = None => RelationshipsOf(srv, s) = {}
    BY <1>7 DEF WriteFits, Parts
  <1>9. desired.failover # None =>
          /\ JoinedAsAsked(srv, s, desired.failover.name, desired)
          /\ srv.rels[desired.failover.name].tuning = desired.failover.tuning
    BY <1>7, AheadEmpty DEF WriteFits, Arrives
  <1>10. failover_of(srv, s) = desired.failover
    BY <1>8, <1>9, FailoverAsAsked
  <1>11. Assembled(srv, s) = desired
    BY <1>5, <1>6, <1>10 DEF Assembled, Payload
  <1>12. held.dns # None
    BY <1>5, AbsentIsNoValue DEF Payload
  <1>13. Reading(srv, s) = "ok"
    BY <1>1, <1>11, <1>12 DEF Reading
  <1>14. desired.failover # None => s \in srv.synced
    BY DEF WriteFits, Follows
  <1>15. OwnListed(srv, s, << >>, owner)
    BY DEF WriteFits, Fitting
  <1>16. QED
    BY <1>8, <1>11, <1>13, <1>14, <1>15 DEF Rested

\* And with none left of a delete, the scope is gone, and rests.
LEMMA DeleteEnds ==
    ASSUME NEW srv, NEW s, NEW owner, Deleting(srv, s, << >>),
           DeleteFits(srv, s, << >>, owner)
    PROVE  Rested(srv, s, owner)
  <1>1. ~Exists(srv, s) /\ RelationshipsOf(srv, s) = {}
    BY AheadEmpty DEF Deleting
  <1>2. Reading(srv, s) = "missing"
    BY <1>1 DEF Reading, Exists
  <1>3. OwnListed(srv, s, << >>, owner)
    BY DEF DeleteFits, Fitting
  <1>4. QED
    BY <1>1, <1>2, <1>3 DEF Rested

-----------------------------------------------------------------------------
(* All writes fit *)

\* A server is the same as itself for every scope.
LEMMA SameItself ==
    ASSUME NEW srv, NEW owner, MembersOwn(srv, owner), NEW t \in Scopes
    PROVE  SameFor(srv, srv, t, owner)
  BY RelationshipsOfLists DEF SameFor, MembersOwn

\* Nothing of a write has changed.
StillFits(q, owner) ==
    /\ pc'[q] = pc[q] /\ todo'[q] = todo[q] /\ request'[q] = request[q]
    /\ SameFor(server, server', scope(q), owner)

\* Then it fits as before.
LEMMA StillFitting ==
    ASSUME KInv, NEW owner, AllFit(owner), RequestsOwn(owner),
           NEW q \in Requests, Writes(q), StillFits(q, owner)
    PROVE  /\ pc'[q] \in {"create", "converge"} =>
                WriteFits(server', scope(q)', todo'[q], request'[q].desired, owner)
           /\ pc'[q] = "delete" => DeleteFits(server', scope(q)', todo'[q], owner)
  <1>1. pc[q] \in Locked /\ IInv
    BY DEF Writes, Locked, KInv, PInv
  <1>2. /\ scope(q) \in Scopes /\ todo[q] \in Seq(Step) /\ verb(q) \in {"POST", "PUT", "DELETE"}
        /\ verb(q) # "DELETE" => request[q].desired \in Payload
    BY <1>1, HolderFacts
  <1>3. /\ pc'[q] = pc[q] /\ todo'[q] = todo[q] /\ request'[q] = request[q]
        /\ scope(q)' = scope(q)
    BY DEF StillFits, scope
  <1>4. ASSUME pc[q] \in {"create", "converge"}
        PROVE  WriteFits(server', scope(q), todo[q], request[q].desired, owner)
    <2>1. request[q].desired \in Payload
      BY <1>2, <1>4 DEF KInv, PInv, StagesByVerb
    <2>2. JoinsAsAsked(todo[q], request[q].desired)
      BY <1>4 DEF KInv, WritesMind, Minds
    <2>3. WriteFits(server, scope(q), todo[q], request[q].desired, owner)
      BY <1>4 DEF AllFit
    <2>4. request[q].desired.failover # None =>
            owner[request[q].desired.failover.name] = scope(q)
      <3>1. request[q].desired # None
        BY <2>1, ServiceAssumption
      <3>2. QED
        BY <1>4, <3>1 DEF RequestsOwn
    <2>5. SameFor(server, server', scope(q), owner)
      BY DEF StillFits
    <2>6. QED
      BY <1>2, <2>1, <2>2, <2>3, <2>4, <2>5, WriteFitsSame
  <1>5. ASSUME pc[q] = "delete"
        PROVE  DeleteFits(server', scope(q), todo[q], owner)
    <2>1. Deleting(server, scope(q), todo[q])
      BY <1>5 DEF KInv, PInv, DeletesOnTheWay
    <2>2. DeleteFits(server, scope(q), todo[q], owner)
      BY <1>5 DEF AllFit
    <2>3. SameFor(server, server', scope(q), owner)
      BY DEF StillFits
    <2>4. QED
      BY <1>2, <2>1, <2>2, <2>3, DeleteFitsSame
  <1>6. QED
    BY <1>3, <1>4, <1>5

\* A step of one request past the lock leaves everything fitting, if it does so
\* for that request.
LEMMA OneMoves ==
    ASSUME KInv, NEW owner, AllFit(owner), RequestsOwn(owner),
           NEW r \in Requests, pc[r] \in Locked, NEW stage, NEW steps,
           pc' = [pc EXCEPT ![r] = stage], todo' = [todo EXCEPT ![r] = steps],
           request' = request, MembersOwn(server', owner),
           \A t \in Scopes : t # scope(r) => SameFor(server, server', t, owner),
           stage \in {"create", "converge"} =>
             WriteFits(server', scope(r), steps, request[r].desired, owner),
           stage = "delete" => DeleteFits(server', scope(r), steps, owner),
           stage \notin {"create", "converge", "delete"} =>
             Rested(server', scope(r), owner)
    PROVE  AllFit(owner)'
  <1>1. IInv
    BY DEF KInv, PInv
  <1>2. /\ pc'[r] = stage /\ todo'[r] = steps /\ request'[r] = request[r]
        /\ \A q \in Requests \ {r} :
             pc'[q] = pc[q] /\ todo'[q] = todo[q] /\ request'[q] = request[q]
    BY <1>1 DEF IInv, Control, ControlType
  <1>3. \A q \in Requests : scope(q)' = scope(q)
    BY DEF scope
  <1>4. ASSUME NEW q \in Requests, q # r, Writes(q)
        PROVE  scope(q) # scope(r) /\ StillFits(q, owner)
    <2>1. scope(q) # scope(r) /\ scope(q) \in Scopes
      BY <1>1, <1>4, HoldersDiffer DEF Writes, Locked
    <2>2. QED
      BY <1>2, <1>4, <2>1 DEF StillFits
  <1>5. ASSUME NEW q \in Requests
        PROVE  /\ pc'[q] \in {"create", "converge"} =>
                    WriteFits(server', scope(q)', todo'[q], request'[q].desired, owner)
               /\ pc'[q] = "delete" => DeleteFits(server', scope(q)', todo'[q], owner)
    <2>1. CASE q = r
      BY <1>2, <1>3, <2>1
    <2>2. CASE q # r
      BY <1>2, <1>4, <2>2, StillFitting DEF Writes
    <2>3. QED
      BY <2>1, <2>2
  <1>6. ASSUME NEW s \in Scopes, \A q \in Requests : Writes(q)' => scope(q)' # s
        PROVE  Rested(server', s, owner)
    <2>1. CASE s = scope(r)
      BY <1>2, <1>3, <1>6, <2>1 DEF Writes
    <2>2. CASE s # scope(r)
      <3>1. \A q \in Requests : Writes(q) => scope(q) # s
        BY <1>2, <1>3, <1>6, <2>2 DEF Writes
      <3>2. Rested(server, s, owner)
        BY <3>1 DEF AllFit
      <3>3. SameFor(server, server', s, owner)
        BY <2>2
      <3>4. QED
        BY <3>2, <3>3, RestedSame
    <2>3. QED
      BY <2>1, <2>2
  <1>7. QED
    BY <1>5, <1>6 DEF AllFit

\* A step that leaves the server and all writes alone does so.
LEMMA NoneMoves ==
    ASSUME KInv, NEW owner, AllFit(owner), RequestsOwn(owner), server' = server,
           \A q \in Requests :
             /\ Writes(q)' <=> Writes(q)
             /\ Writes(q) => /\ pc'[q] = pc[q] /\ todo'[q] = todo[q]
                             /\ request'[q] = request[q]
    PROVE  AllFit(owner)'
  <1>1. MembersOwn(server, owner) /\ IInv
    BY DEF AllFit, KInv, PInv
  <1>2. ASSUME NEW q \in Requests, Writes(q)
        PROVE  StillFits(q, owner) /\ scope(q)' = scope(q)
    <2>1. scope(q) \in Scopes
      BY <1>1, <1>2, HolderFacts DEF Writes, Locked
    <2>2. SameFor(server, server', scope(q), owner)
      BY <1>1, <2>1, SameItself
    <2>3. QED
      BY <1>2, <2>2 DEF StillFits, scope
  <1>3. ASSUME NEW q \in Requests
        PROVE  /\ pc'[q] \in {"create", "converge"} =>
                    WriteFits(server', scope(q)', todo'[q], request'[q].desired, owner)
               /\ pc'[q] = "delete" => DeleteFits(server', scope(q)', todo'[q], owner)
    BY <1>2, StillFitting DEF Writes
  <1>4. ASSUME NEW s \in Scopes, \A q \in Requests : Writes(q)' => scope(q)' # s
        PROVE  Rested(server', s, owner)
    <2>1. \A q \in Requests : Writes(q) => scope(q) # s
      BY <1>2, <1>4
    <2>2. QED
      BY <2>1 DEF AllFit
  <1>5. QED
    BY <1>1, <1>3, <1>4 DEF AllFit

\* A scope that r alone may write is at rest while r does not.
LEMMA HolderRests ==
    ASSUME IInv, NEW owner, AllFit(owner), NEW r \in Requests,
           pc[r] \in {"exists", "assemble"}
    PROVE  Rested(server, scope(r), owner)
  <1>1. pc[r] \in Locked /\ ~Writes(r)
    BY DEF Writes, Locked
  <1>2. scope(r) \in Scopes
    BY <1>1, HolderFacts
  <1>3. \A q \in Requests : Writes(q) => scope(q) # scope(r)
    BY <1>1, HoldersDiffer DEF Writes, Locked
  <1>4. QED
    BY <1>2, <1>3 DEF AllFit

\* Replies stay as they are when r is answered as it should be.
LEMMA RepliesStayFit ==
    ASSUME KInv, RepliesFit, NEW r \in Requests, NEW status, NEW body,
           Answer(r, status, body), request' = request,
           verb(r) # "GET" =>
             /\ status \in {"ok", "gone", "not_found", "immutable_field"}
             /\ status = "ok" => body = request[r].desired
    PROVE  RepliesFit'
  <1>1. IInv
    BY DEF KInv, PInv
  <1>2. /\ reply'[r] = [status |-> status, body |-> body]
        /\ \A q \in Requests \ {r} : reply'[q] = reply[q]
    BY <1>1, AnswerReplies
  <1>3. \A q \in Requests : verb(q)' = verb(q)
    BY DEF verb
  <1>4. QED
    BY <1>2, <1>3 DEF RepliesFit

\* A request past the lock reads, and is answered or goes on.
LEMMA ReadMoves ==
    ASSUME KInv, NEW owner, AllFit(owner), RequestsOwn(owner),
           NEW r \in Requests, pc[r] \in Locked, NEW stage, NEW steps,
           server' = server, request' = request,
           \/ Proceed(r, stage, steps)
           \/ /\ stage = "done" /\ steps = << >>
              /\ \E status, body : Answer(r, status, body),
           stage \in {"create", "converge"} =>
             WriteFits(server, scope(r), steps, request[r].desired, owner),
           stage = "delete" => DeleteFits(server, scope(r), steps, owner),
           stage \notin {"create", "converge", "delete"} =>
             Rested(server, scope(r), owner)
    PROVE  AllFit(owner)'
  <1>1. MembersOwn(server, owner)
    BY DEF AllFit
  <1>2. \A t \in Scopes : t # scope(r) => SameFor(server, server', t, owner)
    BY <1>1, SameItself
  <1>3. pc' = [pc EXCEPT ![r] = stage] /\ todo' = [todo EXCEPT ![r] = steps]
    BY DEF Proceed, Answer
  <1>4. QED
    BY <1>1, <1>2, <1>3, OneMoves

\* A request past the lock that is answered, of a scope at rest.
LEMMA AnswerMoves ==
    ASSUME KInv, NEW owner, AllFit(owner), RequestsOwn(owner),
           NEW r \in Requests, pc[r] \in Locked, NEW status, NEW body,
           Answer(r, status, body), server' = server, request' = request,
           Rested(server, scope(r), owner)
    PROVE  AllFit(owner)'
  <1>1. "done" \notin {"create", "converge", "delete"}
    OBVIOUS
  <1>2. \E s, b : Answer(r, s, b)
    OBVIOUS
  <1> DEFINE stage == "done"
             steps == << >>
  <1>3. \/ Proceed(r, stage, steps)
        \/ /\ stage = "done" /\ steps = << >>
           /\ \E s, b : Answer(r, s, b)
    BY <1>2
  <1>4. /\ stage \in {"create", "converge"} =>
             WriteFits(server, scope(r), steps, request[r].desired, owner)
        /\ stage = "delete" => DeleteFits(server, scope(r), steps, owner)
        /\ stage \notin {"create", "converge", "delete"} =>
             Rested(server, scope(r), owner)
    BY <1>1
  <1> HIDE DEF stage, steps
  <1>5. QED
    BY <1>3, <1>4, ReadMoves

\* What fits, fits when a request arrives or takes the lock;
LEMMA ArrivalFits ==
    ASSUME KInv, NEW owner, AllFit(owner), RepliesFit, RequestsOwn(owner),
           NEW r \in Requests, Client(r) \/ lock(r)
    PROVE  AllFit(owner)' /\ RepliesFit'
  <1>1. PInv /\ RepliedIsDone
    BY DEF KInv, PInv
  <1>2. /\ Alone(r) /\ (pc[r] = "idle" \/ request' = request) /\ pc'[r] # "idle"
        /\ pc'[r] # "delete" /\ Rests(r)
    BY <1>1, ArrivalForms
  <1>3. pc[r] \in {"idle", "locking"} /\ reply' = reply
    BY DEF Client, Submit, lock
  <1>4. AllFit(owner)'
    <2>1. ~Writes(r) /\ ~Writes(r)' /\ server' = server
      BY <1>2, <1>3 DEF Writes, Rests
    <2>2. \A q \in Requests \ {r} :
            pc'[q] = pc[q] /\ todo'[q] = todo[q] /\ request'[q] = request[q]
      BY <1>2 DEF Alone
    <2>3. \A q \in Requests :
            /\ Writes(q)' <=> Writes(q)
            /\ Writes(q) => /\ pc'[q] = pc[q] /\ todo'[q] = todo[q]
                            /\ request'[q] = request[q]
      BY <2>1, <2>2 DEF Writes
    <2>4. QED
      BY <2>1, <2>3, NoneMoves
  <1>5. RepliesFit'
    <2>1. ASSUME NEW q \in Requests, reply'[q] # None, verb(q)' # "GET"
          PROVE  /\ reply'[q].status \in {"ok", "gone", "not_found", "immutable_field"}
                 /\ reply'[q].status = "ok" => reply'[q].body = request'[q].desired
      <3>1. pc[q] = "done"
        BY <1>1, <1>3, <2>1 DEF RepliedIsDone
      <3>2. request'[q] = request[q]
        BY <1>2, <1>3, <3>1 DEF Alone
      <3>3. QED
        BY <1>3, <2>1, <3>2 DEF RepliesFit, verb
    <2>2. QED
      BY <2>1 DEF RepliesFit
  <1>6. QED
    BY <1>4, <1>5

\* when a GET is answered;
LEMMA GetFits ==
    ASSUME KInv, NEW owner, AllFit(owner), RepliesFit, RequestsOwn(owner),
           NEW r \in Requests, get_scope(r)
    PROVE  AllFit(owner)' /\ RepliesFit'
  <1>1. IInv /\ pc[r] = "read" /\ verb(r) = "GET" /\ server' = server /\ request' = request
    BY DEF KInv, PInv, StagesByVerb, get_scope
  <1>2. PICK status, body : Answer(r, status, body)
    BY ReadingCases DEF get_scope, Unreadable
  <1>3. Alone(r) /\ pc'[r] = "done"
    BY <1>1, <1>2, AnswerAlone
  <1>4. \A q \in Requests :
          /\ Writes(q)' <=> Writes(q)
          /\ Writes(q) => /\ pc'[q] = pc[q] /\ todo'[q] = todo[q]
                          /\ request'[q] = request[q]
    BY <1>1, <1>3 DEF Alone, Writes
  <1>5. AllFit(owner)'
    BY <1>1, <1>4, NoneMoves
  <1>6. RepliesFit'
    BY <1>1, <1>2, RepliesStayFit
  <1>7. QED
    BY <1>5, <1>6

\* when a write finds the scope there or not;
LEMMA ExistsFits ==
    ASSUME KInv, NEW owner, AllFit(owner), RepliesFit, RequestsOwn(owner),
           NEW r \in Requests, scope_exists(r)
    PROVE  AllFit(owner)' /\ RepliesFit'
  <1> DEFINE desired == request[r].desired
             plan == create_plan(desired)
  <1>1. /\ IInv /\ AllMembersExist(server) /\ pc[r] = "exists" /\ pc[r] \in Locked
        /\ server' = server /\ request' = request
    BY DEF KInv, PInv, scope_exists, Locked
  <1>2. Rested(server, scope(r), owner)
    BY <1>1, HolderRests
  <1>3. scope(r) \in Scopes /\ server \in Server
    BY <1>1, HolderFacts
  <1>4. CASE Exists(server, scope(r))
    <2>1. Proceed(r, "assemble", << >>)
      BY <1>4 DEF scope_exists
    <2>2. AllFit(owner)'
      BY <1>1, <1>2, <2>1, ReadMoves
    <2>3. RepliesFit'
      BY <1>1, <2>1 DEF RepliesFit, Proceed, verb
    <2>4. QED
      BY <2>2, <2>3
  <1>5. CASE ~Exists(server, scope(r)) /\ verb(r) = "POST"
    <2>1. Proceed(r, "create", plan)
      BY <1>5 DEF scope_exists
    <2>2. desired \in Payload /\ Valid(desired)
      BY <1>1, <1>5, HolderFacts
    <2>3. plan \in Seq(Step)
      BY <2>2, CreatePlanType
    <2>4. WriteFits(server, scope(r), plan, desired, owner)
      BY <1>1, <1>2, <1>3, <1>5, <2>2, <2>3, CreateStarts
    <2>5. AllFit(owner)'
      BY <1>1, <2>1, <2>4, ReadMoves
    <2>6. RepliesFit'
      BY <1>1, <2>1 DEF RepliesFit, Proceed, verb
    <2>7. QED
      BY <2>5, <2>6
  <1>6. CASE ~Exists(server, scope(r)) /\ verb(r) # "POST"
    <2>1. Answer(r, "gone", None)
      BY <1>6 DEF scope_exists
    <2>2. AllFit(owner)'
      BY <1>1, <1>2, <2>1, AnswerMoves
    <2>3. RepliesFit'
      BY <1>1, <2>1, RepliesStayFit
    <2>4. QED
      BY <2>2, <2>3
  <1>7. QED
    BY <1>4, <1>5, <1>6

\* A step of r past the lock that answers it as it should be keeps what fits.
LEMMA AnswerFits ==
    ASSUME KInv, NEW owner, AllFit(owner), RepliesFit, RequestsOwn(owner),
           NEW r \in Requests, pc[r] \in Locked, NEW status, NEW body,
           Answer(r, status, body), server' = server, request' = request,
           Rested(server, scope(r), owner),
           status \in {"ok", "gone", "not_found", "immutable_field"},
           status = "ok" => body = request[r].desired
    PROVE  AllFit(owner)' /\ RepliesFit'
  BY AnswerMoves, RepliesStayFit

\* So does one that goes on with steps that fit.
LEMMA ProceedFits ==
    ASSUME KInv, NEW owner, AllFit(owner), RepliesFit, RequestsOwn(owner),
           NEW r \in Requests, pc[r] \in Locked, NEW stage, NEW steps,
           Proceed(r, stage, steps), server' = server, request' = request,
           stage \in {"create", "converge"} =>
             WriteFits(server, scope(r), steps, request[r].desired, owner),
           stage = "delete" => DeleteFits(server, scope(r), steps, owner),
           stage \notin {"create", "converge", "delete"} =>
             Rested(server, scope(r), owner)
    PROVE  AllFit(owner)' /\ RepliesFit'
  <1>1. AllFit(owner)'
    BY ReadMoves
  <1>2. RepliesFit'
    BY DEF RepliesFit, Proceed, verb
  <1>3. QED
    BY <1>1, <1>2

\* when it reads the scope to converge it,
LEMMA AssembleFits ==
    ASSUME KInv, NEW owner, AllFit(owner), RepliesFit, RequestsOwn(owner),
           NEW r \in Requests, assemble_to_converge(r)
    PROVE  AllFit(owner)' /\ RepliesFit'
  <1> DEFINE s == scope(r)
             desired == request[r].desired
             current == Assembled(server, s)
             plan == converge_plan(current, desired)
  <1>1. /\ IInv /\ OneRelationship(server) /\ pc[r] = "assemble" /\ pc[r] \in Locked
        /\ verb(r) # "DELETE" /\ server' = server /\ request' = request
    BY DEF KInv, PInv, assemble_to_converge, Locked
  <1>2. Rested(server, s, owner) /\ MembersOwn(server, owner)
    BY <1>1, HolderRests DEF AllFit
  <1>3. s \in Scopes /\ server \in Server /\ desired \in Payload /\ Valid(desired)
    BY <1>1, HolderFacts
  <1>4. Reading(server, s) \in {"ok", "missing"}
    BY <1>2 DEF Rested
  <1>5. CASE Reading(server, s) = "missing"
    <2>1. Answer(r, "not_found", None)
      BY <1>5 DEF assemble_to_converge, Unreadable
    <2>2. QED
      BY <1>1, <1>2, <2>1, AnswerFits
  <1>6. CASE Reading(server, s) = "ok" /\ current.mask # desired.mask
    <2>1. Answer(r, "immutable_field", None)
      BY <1>6 DEF assemble_to_converge
    <2>2. QED
      BY <1>1, <1>2, <2>1, AnswerFits
  <1>7. CASE Reading(server, s) = "ok" /\ current.mask = desired.mask
    <2>1. Proceed(r, "converge", plan)
      BY <1>7 DEF assemble_to_converge
    <2>2. current \in Payload
      BY <1>3, <1>7, AssembledType
    <2>3. plan \in Seq(Step)
      BY <1>3, <2>2, PlanTypes
    <2>4. WriteFits(server, s, plan, desired, owner)
      BY <1>1, <1>2, <1>3, <1>7, <2>3, ConvergeStarts
    <2> HIDE DEF plan, desired
    <2>5. QED
      BY <1>1, <2>1, <2>4, ProceedFits DEF desired
  <1>8. QED
    BY <1>4, <1>5, <1>6, <1>7

\* or to delete it;
LEMMA AssembleToDeleteFits ==
    ASSUME KInv, NEW owner, AllFit(owner), RepliesFit, RequestsOwn(owner),
           NEW r \in Requests, assemble_to_delete(r)
    PROVE  AllFit(owner)' /\ RepliesFit'
  <1> DEFINE s == scope(r)
             current == Assembled(server, s)
             plan == delete_plan(current)
  <1>1. /\ IInv /\ OneRelationship(server) /\ pc[r] = "assemble" /\ pc[r] \in Locked
        /\ server' = server /\ request' = request
    BY DEF KInv, PInv, assemble_to_delete, Locked
  <1>2. Rested(server, s, owner) /\ MembersOwn(server, owner)
    BY <1>1, HolderRests DEF AllFit
  <1>3. s \in Scopes /\ server \in Server
    BY <1>1, HolderFacts
  <1>4. Reading(server, s) \in {"ok", "missing"}
    BY <1>2 DEF Rested
  <1>5. CASE Reading(server, s) = "missing"
    <2>1. Answer(r, "gone", None)
      BY <1>5 DEF assemble_to_delete
    <2>2. QED
      BY <1>1, <1>2, <2>1, AnswerFits
  <1>6. CASE Reading(server, s) = "ok"
    <2>1. Proceed(r, "delete", plan)
      BY <1>6 DEF assemble_to_delete
    <2>2. current \in Payload
      BY <1>3, <1>6, AssembledType
    <2>3. plan \in Seq(Step)
      BY <2>2, DeletePlanType
    <2>4. DeleteFits(server, s, plan, owner)
      BY <1>1, <1>2, <1>3, <1>6, <2>3, DeleteStarts
    <2> HIDE DEF plan
    <2>5. QED
      BY <1>1, <2>1, <2>4, ProceedFits
  <1>7. QED
    BY <1>4, <1>5, <1>6

\* when a write that has no step left is answered,
LEMMA RespondFits ==
    ASSUME KInv, NEW owner, AllFit(owner), RepliesFit, RequestsOwn(owner),
           NEW r \in Requests, respond(r)
    PROVE  /\ AllFit(owner)' /\ RepliesFit'
           /\ reply'[r].status = "ok"
           /\ request[r].desired.failover # None => scope(r) \in server'.synced
  <1> DEFINE s == scope(r)
             desired == request[r].desired
  <1>1. /\ IInv /\ OneRelationship(server) /\ pc[r] \in {"create", "converge"}
        /\ pc[r] \in Locked /\ todo[r] = << >> /\ verb(r) # "DELETE"
        /\ server' = server /\ request' = request
    BY DEF KInv, PInv, StagesByVerb, respond, Locked
  <1>2. s \in Scopes /\ server \in Server /\ desired \in Payload /\ Valid(desired)
    BY <1>1, HolderFacts
  <1>3. Writing(server.scopes[s], << >>, desired)
    BY <1>1 DEF KInv, PInv, WritesOnTheWay
  <1>4. WriteFits(server, s, << >>, desired, owner)
    BY <1>1 DEF AllFit
  <1>5. /\ Reading(server, s) = "ok" /\ Assembled(server, s) = desired
        /\ desired.failover # None => s \in server.synced
        /\ Rested(server, s, owner)
    BY <1>1, <1>2, <1>3, <1>4, WriteEnds
  <1>6. Answer(r, "ok", desired) /\ desired = request[r].desired
    BY <1>5 DEF respond
  <1> HIDE DEF desired, s
  <1>7. AllFit(owner)' /\ RepliesFit'
    <2>1. Rested(server, scope(r), owner)
      BY <1>5 DEF s
    <2>2. QED
      BY <1>1, <1>6, <2>1, AnswerFits
  <1>8. reply'[r].status = "ok"
    <2>1. reply'[r] = [status |-> "ok", body |-> desired]
      BY <1>1, <1>6, AnswerReplies
    <2>2. QED
      BY <2>1
  <1>9. QED
    BY <1>1, <1>5, <1>7, <1>8 DEF desired, s

\* or a delete;
LEMMA RespondDeletedFits ==
    ASSUME KInv, NEW owner, AllFit(owner), RepliesFit, RequestsOwn(owner),
           NEW r \in Requests, respond_deleted(r)
    PROVE  AllFit(owner)' /\ RepliesFit'
  <1>1. /\ IInv /\ pc[r] = "delete" /\ pc[r] \in Locked /\ todo[r] = << >>
        /\ server' = server /\ request' = request /\ Answer(r, "gone", None)
    BY DEF KInv, PInv, respond_deleted, Locked
  <1>2. Deleting(server, scope(r), << >>)
    BY <1>1 DEF KInv, PInv, DeletesOnTheWay
  <1>3. DeleteFits(server, scope(r), << >>, owner)
    BY <1>1 DEF AllFit
  <1>4. Rested(server, scope(r), owner)
    BY <1>2, <1>3, DeleteEnds
  <1>5. QED
    BY <1>1, <1>4, AnswerFits

\* when a write looks a relationship up;
LEMMA LookupFits ==
    ASSUME KInv, NEW owner, AllFit(owner), RepliesFit, RequestsOwn(owner),
           NEW r \in Requests, _fetch_failover_by_name(r)
    PROVE  AllFit(owner)' /\ RepliesFit'
  <1> DEFINE s == scope(r)
             desired == request[r].desired
             steps == todo[r]
  <1>1. IInv /\ server' = server /\ request' = request
    BY DEF KInv, PInv, _fetch_failover_by_name
  <1>2. /\ pc[r] \in {"create", "converge", "delete"}
        /\ steps \in Seq(Step) /\ steps # << >>
        /\ Head(steps).do.op \in LookupOps
    BY <1>1, LookupDecides
  <1>3. PICK rest \in Seq(Step) :
          /\ Proceed(r, pc[r], rest)
          /\ Advance(steps, Head(steps).do, rest)
          /\ Decides(server, steps, rest)
    BY <1>1, LookupDecides
  <1>4. pc[r] \in Locked /\ s \in Scopes /\ server \in Server
    BY <1>1, <1>2, HolderFacts DEF Locked
  <1>5. MembersOwn(server, owner)
    BY DEF AllFit
  <1>6. ASSUME pc[r] \in {"create", "converge"}
        PROVE  WriteFits(server, s, rest, desired, owner)
    <2>1. verb(r) # "DELETE"
      BY <1>6 DEF KInv, PInv, StagesByVerb
    <2>2. desired \in Payload /\ desired # None
      BY <1>1, <1>4, <2>1, HolderFacts, ServiceAssumption
    <2>3. desired.failover # None => owner[desired.failover.name] = s
      BY <1>6, <2>2 DEF RequestsOwn
    <2>4. Writing(server.scopes[s], steps, desired) /\ JoinsAsAsked(steps, desired)
      BY <1>6 DEF KInv, PInv, WritesOnTheWay, WritesMind, Minds
    <2>5. WriteFits(server, s, steps, desired, owner)
      BY <1>6 DEF AllFit
    <2> HIDE DEF desired, steps, s
    <2>6. QED
      BY <1>2, <1>3, <1>4, <1>5, <2>2, <2>3, <2>4, <2>5, WriteFitsLooked
  <1>7. ASSUME pc[r] = "delete"
        PROVE  DeleteFits(server, s, rest, owner)
    <2>1. Deleting(server, s, steps) /\ DeleteFits(server, s, steps, owner)
      BY <1>7 DEF KInv, PInv, DeletesOnTheWay, AllFit
    <2> HIDE DEF steps, s
    <2>2. QED
      BY <1>2, <1>3, <1>4, <1>5, <2>1, DeleteFitsLooked
  <1> HIDE DEF steps
  <1>8. QED
    BY <1>1, <1>2, <1>3, <1>4, <1>6, <1>7, ProceedFits

\* when it runs a script.
LEMMA ScriptFits ==
    ASSUME KInv, NEW owner, AllFit(owner), RepliesFit, RequestsOwn(owner),
           NEW r \in Requests, _run_ps(r)
    PROVE  AllFit(owner)' /\ RepliesFit'
  <1> DEFINE s == scope(r)
             desired == request[r].desired
             steps == todo[r]
  <1>1. PICK issued \in Issuing(r) :
          /\ server' = Run(server, s, issued.cmdlet).server
          /\ Conclude(r, issued.rest, Run(server, s, issued.cmdlet).outcome)
    BY DEF _run_ps
  <1> DEFINE c == issued.cmdlet
             rest == issued.rest
             new == Run(server, s, c).server
             outcome == Run(server, s, c).outcome
  <1>2. /\ pc[r] \in {"create", "converge", "delete"} /\ steps # << >>
        /\ issued \in Issuable(steps) /\ request' = request
    BY <1>1 DEF Issuing, _run_ps
  <1>3. IInv /\ AllMembersExist(server) /\ MembersOwn(server, owner)
    BY DEF KInv, PInv, AllFit
  <1>4. /\ pc[r] \in Locked /\ s \in Scopes /\ server \in Server
        /\ steps \in Seq(Step)
    BY <1>2, <1>3, HolderFacts DEF Locked
  <1>5. c \in Cmdlet /\ rest \in Seq(Step) /\ Advance(steps, c, rest)
    BY <1>2, <1>4, IssuableType, IssuableAdvances
  <1>6. Head(steps).do.op \notin LookupOps
    BY <1>2 DEF Issuable, LookupOps, BatchOps
  <1>7. server' = new /\ Conclude(r, rest, outcome)
    BY <1>1
  <1> HIDE DEF c, rest, steps, s
  \* What the cmdlet finds, and what it leaves.
  <1> DEFINE Goes == /\ outcome \in {"ok"} \cup Head(steps).tolerates
                     /\ Finds(server, s, c, desired)
                     /\ c.op = "CreateRelationship" =>
                          Exists(server, s) /\ owner[desired.failover.name] = s
                     /\ c.op = "RemoveRelationship" => owner[c.arg] = s
  <1>8. ASSUME Fitting(server, s, steps, owner), c.op = "RemoveRelationship"
        PROVE  owner[c.arg] = s
    <2>1. Head(steps).do = c /\ Head(steps) \in Ahead(steps)
      BY <1>2, <1>4, <1>5, <1>6, <1>8, CommandKinds, AheadHead DEF steps
    <2>2. QED
      BY <1>8, <2>1 DEF Fitting, LeavesOwned, Leaves
  <1>9. ASSUME pc[r] \in {"create", "converge"}
        PROVE  Goes /\ WriteFits(new, s, rest, desired, owner)
    <2>1. verb(r) # "DELETE"
      BY <1>9 DEF KInv, PInv, StagesByVerb
    <2>2. desired \in Payload /\ desired # None
      BY <1>3, <1>4, <2>1, HolderFacts, ServiceAssumption
    <2>3. desired.failover # None => owner[desired.failover.name] = s
      BY <1>9, <2>2 DEF RequestsOwn, s
    <2>4. Writing(server.scopes[s], steps, desired) /\ JoinsAsAsked(steps, desired)
      BY <1>9 DEF KInv, PInv, WritesOnTheWay, WritesMind, Minds, steps, s
    <2>5. WriteFits(server, s, steps, desired, owner)
      BY <1>9 DEF AllFit, steps, s
    <2>6. steps # << >>
      BY <1>2
    <2> HIDE DEF desired
    <2>7. outcome \in {"ok"} \cup Head(steps).tolerates
      BY <1>4, <1>5, <1>6, <2>2, <2>4, <2>5, <2>6, WriteAccepted
    <2>8. Finds(server, s, c, desired)
      BY <1>4, <1>5, <1>6, <2>4, <2>5, <2>6, WriteFinds
    <2>9. c.op = "CreateRelationship" =>
            Exists(server, s) /\ owner[desired.failover.name] = s
      <3>1. SUFFICES ASSUME c.op = "CreateRelationship"
                     PROVE  Exists(server, s)
        BY <2>3, <2>8 DEF Finds
      <3>2. c = Head(steps).do
        BY <1>5, <1>6, <3>1, CommandKinds
      <3>3. ~StartsAnew(steps)
        BY <3>1, <3>2 DEF StartsAnew, Does
      <3>4. QED
        BY <2>4, <3>3 DEF Writing, Exists
    <2>10. WriteFits(new, s, rest, desired, owner)
      BY <1>4, <1>5, <1>6, <2>2, <2>4, <2>5, <2>6, WriteFitsAdvances
    <2>11. QED
      BY <1>8, <2>5, <2>7, <2>8, <2>9, <2>10 DEF WriteFits
  <1>10. ASSUME pc[r] = "delete"
         PROVE  Goes /\ DeleteFits(new, s, rest, owner)
    <2>1. Deleting(server, s, steps) /\ DeleteFits(server, s, steps, owner)
      BY <1>10 DEF KInv, PInv, DeletesOnTheWay, AllFit, steps, s
    <2>2. steps # << >>
      BY <1>2
    <2> HIDE DEF desired
    <2>3. outcome \in {"ok"} \cup Head(steps).tolerates
      BY <1>4, <1>5, <1>6, <2>1, <2>2, DeleteAccepted
    <2>4. Finds(server, s, c, desired)
      BY <1>4, <1>5, <1>6, <2>1, <2>2, DeleteFinds
    <2>5. DeleteFits(new, s, rest, owner)
      BY <1>4, <1>5, <1>6, <2>1, <2>2, DeleteFitsAdvances
    <2>6. c.op # "CreateRelationship"
      <3>1. Head(steps).do.op \in DeletingOps
        BY <1>4, <2>1, <2>2, AheadHead DEF Deleting
      <3>2. c.op \in {"AddExclusion", "RemoveExclusion"} \/ c = Head(steps).do
        BY <1>5, <1>6, CommandKinds
      <3>3. QED
        BY <3>1, <3>2 DEF DeletingOps
    <2>7. QED
      BY <1>8, <2>1, <2>3, <2>4, <2>5, <2>6 DEF DeleteFits
  <1>11. Goes
    BY <1>2, <1>9, <1>10
  <1>12. Proceed(r, pc[r], rest)
    BY <1>7, <1>11 DEF Conclude, steps
  <1>13. MembersOwn(new, owner)
    BY <1>3, <1>4, <1>5, <1>11, RunOwn
  <1>14. \A t \in Scopes : t # s => SameFor(server, new, t, owner)
    BY <1>3, <1>4, <1>5, <1>11, RunSameFor
  <1>15. /\ pc' = [pc EXCEPT ![r] = pc[r]] /\ todo' = [todo EXCEPT ![r] = rest]
         /\ reply' = reply
    BY <1>12 DEF Proceed
  <1> HIDE DEF Goes, new
  <1>16. AllFit(owner)'
    <2> DEFINE stage == pc[r]
    <2>1. /\ stage \in {"create", "converge"} =>
                WriteFits(server', scope(r), rest, request[r].desired, owner)
          /\ stage = "delete" => DeleteFits(server', scope(r), rest, owner)
          /\ stage \in {"create", "converge", "delete"}
      BY <1>2, <1>7, <1>9, <1>10 DEF s
    <2>2. pc' = [pc EXCEPT ![r] = stage]
      BY <1>15
    <2>3. /\ MembersOwn(server', owner)
          /\ \A t \in Scopes : t # scope(r) => SameFor(server, server', t, owner)
      BY <1>7, <1>13, <1>14 DEF s
    <2> HIDE DEF stage
    <2>4. QED
      BY <1>2, <1>4, <1>15, <2>1, <2>2, <2>3, OneMoves
  <1>17. RepliesFit'
    BY <1>2, <1>15 DEF RepliesFit, verb
  <1>18. QED
    BY <1>16, <1>17

\* Every step keeps what fits, until something goes wrong.
LEMMA StepFits ==
    ASSUME KInv, NEW owner, AllFit(owner), RepliesFit, RequestsOwn(owner),
           [Next]_vars, faults' = faults
    PROVE  AllFit(owner)' /\ RepliesFit'
  <1>1. faults \in Nat
    BY DEF KInv, PInv, IInv, DataType
  <1>2. faults' # faults + 1
    BY <1>1
  <1>3. ASSUME NEW r \in Requests, Client(r) \/ Handle(r)
        PROVE  AllFit(owner)' /\ RepliesFit'
    <2>1. ~FailRead(r) /\ ~FailCmdlet(r) /\ ~Rerun(r)
      BY <1>2 DEF FailRead, FailCmdlet, Rerun, Fault
    <2>2. CASE Client(r) \/ lock(r)
      BY <2>2, ArrivalFits
    <2>3. CASE get_scope(r)
      BY <2>3, GetFits
    <2>4. CASE scope_exists(r)
      BY <2>4, ExistsFits
    <2>5. CASE assemble_to_converge(r)
      BY <2>5, AssembleFits
    <2>6. CASE assemble_to_delete(r)
      BY <2>6, AssembleToDeleteFits
    <2>7. CASE respond(r)
      BY <2>7, RespondFits
    <2>8. CASE respond_deleted(r)
      BY <2>8, RespondDeletedFits
    <2>9. CASE _fetch_failover_by_name(r)
      BY <2>9, LookupFits
    <2>10. CASE _run_ps(r)
      BY <2>10, ScriptFits
    <2>11. QED
      BY <1>3, <2>1, <2>2, <2>3, <2>4, <2>5, <2>6, <2>7, <2>8, <2>9, <2>10 DEF Handle
  <1>4. ~Crash
    BY <1>2 DEF Crash, Fault
  <1>5. CASE UNCHANGED vars
    <2>1. /\ server' = server /\ pc' = pc /\ todo' = todo /\ request' = request
          /\ reply' = reply
      BY <1>5 DEF vars
    <2>2. AllFit(owner)'
      BY <2>1, NoneMoves DEF Writes
    <2>3. RepliesFit'
      BY <2>1 DEF RepliesFit, verb
    <2>4. QED
      BY <2>2, <2>3
  <1>6. QED
    BY <1>3, <1>4, <1>5 DEF Next

\* FInv holds at the start, if the relationships there are private to scopes.
LEMMA InitFits ==
    ASSUME Init, NEW owner, MembersOwn(server, owner)
    PROVE  FInv(owner)
  <1>1. PICK f \in [Scopes -> Payloads \cup {None}] : server = Laid(f) /\ Agree(f)
    BY DEF Init
  <1>2. ASSUME NEW s \in Scopes PROVE Rested(server, s, owner)
    <2>1. Reading(server, s) \in {"ok", "missing"}
      <3>1. CASE f[s] = None
        <4>1. server.scopes[s] = None
          BY <1>1, <3>1 DEF Laid
        <4>2. QED
          BY <4>1 DEF Reading
      <3>2. CASE f[s] # None
        <4> DEFINE p == f[s]
        <4>1. p \in Payload /\ Valid(p)
          BY <3>2, ServiceAssumption
        <4>2. server.scopes[s] = Lay(p)
          BY <1>1, <3>2 DEF Laid
        <4>3. p.dns # None /\ Lay(p) \in ScopeConfig
          BY <4>1, AbsentIsNoValue DEF Payload, Lay, ScopeConfig
        <4>4. server.scopes[s] # None /\ server.scopes[s].dns # None
          BY <4>2, <4>3, AbsentIsNoValue DEF Lay
        <4>5. Valid(Assembled(server, s))
          <5> DEFINE a == Assembled(server, s)
          <5>1. /\ a.range = p.range /\ a.gateway = p.gateway /\ a.next = p.next
                /\ a.file = p.file /\ a.exclusions = p.exclusions
            BY <4>2 DEF Assembled, Lay
          <5> HIDE DEF a, p
          <5>2. QED
            BY <4>1, <5>1 DEF a, Valid, pxe_options_set_together,
               no_overlapping_exclusions, gateway_not_in_distribution_range
        <4>6. QED
          BY <4>4, <4>5 DEF Reading
      <3>3. QED
        BY <3>1, <3>2
    <2>2. ASSUME NEW n \in Names, server.rels[n] # None
          PROVE  /\ server.rels[n].members = Joining(f, n) /\ Joining(f, n) # {}
      <3> DEFINE w == CHOOSE w \in Joining(f, n) : TRUE
      <3>1. server.rels[n] = IF Joining(f, n) = {} THEN None
                             ELSE [peer |-> f[w].failover.peer,
                                   tuning |-> f[w].failover.tuning,
                                   members |-> Joining(f, n)]
        BY <1>1 DEF Laid
      <3> HIDE DEF w
      <3>2. QED
        BY <2>2, <3>1
    <2>3. RelationshipsOf(server, s) # {} => s \in server.synced
      <3>1. SUFFICES ASSUME NEW n \in RelationshipsOf(server, s)
                     PROVE  s \in server.synced
        OBVIOUS
      <3>2. n \in Names /\ server.rels[n] # None /\ s \in server.rels[n].members
        BY RelationshipsOfLists DEF Lists
      <3>3. s \in Joining(f, n)
        BY <2>2, <3>2
      <3>4. server.synced = UNION {Joining(f, m) : m \in Names}
        BY <1>1 DEF Laid
      <3>5. QED
        BY <3>2, <3>3, <3>4
    <2>4. OwnListed(server, s, << >>, owner)
      <3>1. SUFFICES ASSUME NEW n \in Names, owner[n] = s, server.rels[n] # None
                     PROVE  Lists(server, n, s)
        BY DEF OwnListed
      <3>2. PICK t \in Scopes : t \in server.rels[n].members
        BY <2>2, <3>1 DEF Joining
      <3>3. owner[n] = t
        BY <3>1, <3>2 DEF MembersOwn, Lists
      <3>4. QED
        BY <3>1, <3>2, <3>3 DEF Lists
    <2>5. QED
      BY <2>1, <2>3, <2>4 DEF Rested
  <1>3. AllFit(owner)
    BY <1>2 DEF AllFit, Writes, Init
  <1>4. RepliesFit
    BY DEF RepliesFit, Init
  <1>5. QED
    BY <1>3, <1>4, InitKInv DEF FInv

\* Every step keeps FInv.
LEMMA NextFInv ==
    ASSUME NEW owner, FInv(owner), RequestsOwn(owner), [Next]_vars
    PROVE  FInv(owner)'
  <1>1. KInv /\ KInv'
    BY NextKInv DEF FInv
  <1>2. ASSUME faults' = 0 PROVE faults = 0 /\ faults' = faults
    <2>1. faults' = faults \/ faults' = faults + 1
      <3>1. CASE UNCHANGED vars
        BY <3>1 DEF vars
      <3>2. CASE Crash
        BY <3>2 DEF Crash, Fault
      <3>3. ASSUME NEW r \in Requests, Client(r) \/ Handle(r)
            PROVE  faults' = faults \/ faults' = faults + 1
        BY <3>3 DEF Client, Submit, Handle, lock, get_scope, scope_exists,
           assemble_to_converge, assemble_to_delete, _run_ps,
           _fetch_failover_by_name, respond, respond_deleted, FailRead,
           FailCmdlet, Rerun, Fault
      <3>4. QED
        BY <3>1, <3>2, <3>3 DEF Next
    <2>2. faults \in Nat
      BY <1>1 DEF KInv, PInv, IInv, DataType
    <2>3. QED
      BY <1>2, <2>1, <2>2
  <1>3. ASSUME faults' = 0 PROVE AllFit(owner)' /\ RepliesFit'
    BY <1>1, <1>2, <1>3, StepFits DEF FInv
  <1>4. QED
    BY <1>1, <1>3 DEF FInv

-----------------------------------------------------------------------------
(* The theorems about writes that nothing stops *)

\* Relationships private to scopes stay so, and every write fits, as long as
\* nothing goes wrong.
LEMMA SpecFInv ==
    ASSUME NEW owner \in [Names -> Scopes]
    PROVE  Spec /\ MembersOwn(server, owner) /\ []RequestsOwn(owner) => []FInv(owner)
  <1>1. Init /\ MembersOwn(server, owner) => FInv(owner)
    BY InitFits
  <1>2. FInv(owner) /\ RequestsOwn(owner) /\ [Next]_vars => FInv(owner)'
    BY NextFInv
  <1>3. QED
    BY <1>1, <1>2, PTL DEF Spec

\* What the replies to writes then are.
LEMMA FInvReplies ==
    ASSUME NEW owner, FInv(owner)
    PROVE  FaultlessWritesSucceed /\ BodyIsRequest
  BY DEF FInv, RepliesFit, FaultlessWritesSucceed, BodyIsRequest, IsWrite, Answered

\* With nothing going wrong no POST, PUT or DELETE ends in an error, for any
\* number of scopes, if no two of them share a relationship: every cmdlet of a
\* plan finds the server as the plan takes it to be, whatever writes of other
\* scopes come between its steps.
THEOREM FaultlessSucceed ==
    ASSUME NEW owner \in [Names -> Scopes]
    PROVE  Spec /\ MembersOwn(server, owner) /\ []RequestsOwn(owner)
             => []FaultlessWritesSucceed
  <1>1. FInv(owner) => FaultlessWritesSucceed
    BY FInvReplies
  <1>2. QED
    BY <1>1, SpecFInv, PTL

\* Under the same conditions the body of a 200 is the state that was asked for,
\* failover included.
THEOREM OkBodyIsRequest ==
    ASSUME NEW owner \in [Names -> Scopes]
    PROVE  Spec /\ MembersOwn(server, owner) /\ []RequestsOwn(owner) => []BodyIsRequest
  <1>1. FInv(owner) => BodyIsRequest
    BY FInvReplies
  <1>2. QED
    BY <1>1, SpecFInv, PTL

\* A 200 is given to a GET when the scope has been read, and to a write when it
\* has been read back.
LEMMA HandleOk ==
    ASSUME PInv, NEW r \in Requests, Handle(r), pc[r] # "done",
           reply'[r] # None, reply'[r].status = "ok"
    PROVE  get_scope(r) \/ respond(r)
  <1> SUFFICES ASSUME ~get_scope(r), ~respond(r) PROVE FALSE
    OBVIOUS
  <1> DEFINE s == scope(r)
  <1>1. IInv /\ reply[r] = None
    BY DEF PInv, RepliedIsDone
  <1>2. reply' # reply
    BY <1>1
  <1>3. \A stage, steps : ~Proceed(r, stage, steps)
    BY <1>2 DEF Proceed
  <1>4. ASSUME NEW status, NEW body, Answer(r, status, body), status # "ok"
        PROVE  FALSE
    <2>1. reply'[r] = [status |-> status, body |-> body]
      BY <1>1, <1>4, AnswerReplies
    <2>2. QED
      BY <1>4, <2>1
  <1>5. \A reading : reading # "ok" /\ reading = Reading(server, s) => ~Unreadable(r, reading)
    BY <1>4, ReadingCases, UnreadableAnswers
  <1> HIDE DEF s
  <1>6. ~lock(r)
    BY <1>2 DEF lock
  <1>7. ~scope_exists(r)
    <2>1. scope_exists(r) =>
            (\E stage, steps : Proceed(r, stage, steps)) \/ Answer(r, "gone", None)
      BY DEF scope_exists
    <2>2. QED
      BY <1>3, <1>4, <2>1
  <1>8. ~assemble_to_converge(r)
    <2>1. assemble_to_converge(r) =>
            \/ Reading(server, s) # "ok" /\ Unreadable(r, Reading(server, s))
            \/ Answer(r, "immutable_field", None)
            \/ \E steps : Proceed(r, "converge", steps)
      BY DEF assemble_to_converge, s
    <2>2. QED
      BY <1>3, <1>4, <1>5, <2>1
  <1>9. ~assemble_to_delete(r)
    <2>1. assemble_to_delete(r) =>
            \/ \E steps : Proceed(r, "delete", steps)
            \/ Answer(r, "gone", None)
            \/ Reading(server, s) # "ok" /\ Unreadable(r, Reading(server, s))
      BY ReadingCases DEF assemble_to_delete, s
    <2>2. QED
      BY <1>3, <1>4, <1>5, <2>1
  <1>10. ~(_run_ps(r) \/ FailCmdlet(r) \/ Rerun(r))
    <2>1. SUFFICES ASSUME _run_ps(r) \/ FailCmdlet(r) \/ Rerun(r) PROVE FALSE
      OBVIOUS
    <2>2. PICK c \in Issuable(todo[r]), outcome \in Outcomes \cup {"timeout", "broken"} :
            Conclude(r, c.rest, outcome)
      BY <1>1, <2>1, ScriptEffect
    <2>3. \/ Proceed(r, pc[r], c.rest)
          \/ outcome # "ok" /\ Answer(r, ErrorStatus(outcome), None)
      BY <2>2 DEF Conclude
    <2>4. QED
      BY <1>3, <1>4, <2>3, ErrorsAreErrors
  <1>11. ~_fetch_failover_by_name(r)
    BY <1>1, <1>3, LookupAdvances
  <1>12. ~respond_deleted(r)
    BY <1>4 DEF respond_deleted
  <1>13. ~FailRead(r)
    <2>1. SUFFICES ASSUME FailRead(r) PROVE FALSE
      OBVIOUS
    <2>2. PICK kind \in {"failed", "timeout", "broken"} :
            Answer(r, ErrorStatus(kind), None)
      BY <2>1 DEF FailRead
    <2>3. ErrorStatus(kind) # "ok"
      BY DEF ErrorStatus
    <2>4. QED
      BY <1>4, <2>2, <2>3
  <1>14. QED
    BY <1>6, <1>7, <1>8, <1>9, <1>10, <1>11, <1>12, <1>13 DEF Handle

\* A step that answers a request is a step of that request.
LEMMA AnswersByItself ==
    ASSUME PInv, Next, NEW r \in Requests, pc[r] # "done", reply'[r] # None
    PROVE  Handle(r)
  <1>1. reply[r] = None
    BY DEF PInv, RepliedIsDone
  <1>2. ~Crash
    BY <1>1 DEF Crash
  <1>3. ASSUME NEW q \in Requests, Client(q) PROVE FALSE
    BY <1>1, <1>3 DEF Client, Submit
  <1>4. ASSUME NEW q \in Requests, Handle(q), q # r PROVE FALSE
    <2>1. CASE pc[q] # "done"
      BY <1>1, <1>4, <2>1, HandleGone
    <2>2. CASE pc[q] = "done"
      BY <1>4, <2>2 DEF Handle, lock, get_scope, scope_exists,
         assemble_to_converge, assemble_to_delete, _run_ps,
         _fetch_failover_by_name, respond, respond_deleted, FailRead,
         FailCmdlet, Rerun, Issuing
    <2>3. QED
      BY <2>1, <2>2
  <1>5. QED
    BY <1>2, <1>3, <1>4 DEF Next

\* Then no step answers a write while the partner's copy is stale.
LEMMA FInvFollows ==
    ASSUME NEW owner, FInv(owner), RequestsOwn(owner), Next, faults = 0,
           NEW r \in Requests
    PROVE  ~AnswersStale(r)
  <1> SUFFICES ASSUME AnswersStale(r) PROVE FALSE
    OBVIOUS
  <1>1. /\ pc[r] # "done" /\ reply'[r] # None /\ reply'[r].status = "ok"
        /\ verb(r) # "GET" /\ request[r].desired.failover # None
        /\ scope(r) \notin server'.synced
    BY DEF AnswersStale, Answers_now
  <1>2. KInv /\ PInv /\ AllFit(owner) /\ RepliesFit
    BY DEF FInv, KInv
  <1>3. Handle(r)
    BY <1>1, <1>2, AnswersByItself
  <1>4. get_scope(r) \/ respond(r)
    BY <1>1, <1>2, <1>3, HandleOk
  <1>5. ~get_scope(r)
    BY <1>1, <1>2 DEF PInv, StagesByVerb, get_scope
  <1>6. scope(r) \in server'.synced
    BY <1>1, <1>2, <1>4, <1>5, RespondFits
  <1>7. QED
    BY <1>1, <1>6

\* Under the same conditions a 200 to a write that asks for failover is given
\* when the partner has the scope as it is: no change that a write makes, and none
\* that it finds made, goes unreplicated.
THEOREM PartnerToldFirst ==
    ASSUME NEW owner \in [Names -> Scopes]
    PROVE  Spec /\ MembersOwn(server, owner) /\ []RequestsOwn(owner) => PartnerFollows
  <1>1. FInv(owner) /\ RequestsOwn(owner) /\ [Next]_vars
          => [faults = 0 => \A r \in Requests : ~AnswersStale(r)]_vars
    BY FInvFollows
  <1>2. QED
    BY <1>1, SpecFInv, PTL DEF Spec, PartnerFollows

\* Where there is but one scope, nothing needs to be assumed of the relationships.
THEOREM AloneAllSucceed ==
    ASSUME NEW only, Scopes = {only}
    PROVE  Spec => /\ []FaultlessWritesSucceed /\ []BodyIsRequest
                   /\ PartnerFollows
  <1> DEFINE owner == [n \in Names |-> only]
  <1>1. MembersOwn(server, owner)
    BY DEF MembersOwn
  <1>2. IInv => RequestsOwn(owner)
    <2>1. SUFFICES ASSUME IInv, NEW r \in Requests, pc[r] # "idle",
                          request[r].desired # None, request[r].desired.failover # None
                   PROVE  owner[request[r].desired.failover.name] = scope(r)
      BY DEF RequestsOwn
    <2>2. request[r] \in Request
      BY <2>1 DEF IInv, Control, StageMatchesRequest
    <2>3. scope(r) = only /\ request[r].desired \in Payload
      BY <2>1, <2>2, RequestFacts, ServiceAssumption DEF Request, scope
    <2>4. request[r].desired.failover.name \in Names
      BY <2>1, <2>3 DEF Payload, Failover
    <2>5. QED
      BY <2>3, <2>4
  <1> HIDE DEF owner
  <1>3. Init => IInv /\ FInv(owner)
    BY <1>1, InitIInv, InitFits
  <1>4. IInv /\ FInv(owner) /\ [Next]_vars => IInv' /\ FInv(owner)'
    BY <1>2, SpecIsLate, NextIInv, NextFInv
  <1>5. FInv(owner) => FaultlessWritesSucceed /\ BodyIsRequest
    BY FInvReplies
  <1>6. IInv /\ FInv(owner) /\ [Next]_vars
          => [faults = 0 => \A r \in Requests : ~AnswersStale(r)]_vars
    BY <1>2, FInvFollows
  <1>7. QED
    BY <1>3, <1>4, <1>5, <1>6, PTL DEF Spec, PartnerFollows
=============================================================================
