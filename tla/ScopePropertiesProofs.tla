------------------------ MODULE ScopePropertiesProofs ------------------------
(***************************************************************************)
(* What the request handlers promise, for any number of requests, scopes,  *)
(* relationships and faults.  As long as no script outlives its request    *)
(* (Spec), a 200 carries the scope as it was asked for, a 204 is given for *)
(* a scope that is gone, and no relationship lists a scope that does not   *)
(* exist; and even when scripts come late (LateSpec), a relationship that  *)
(* is left empty is somebody's to remove, unless there has been a fault.   *)
(*                                                                         *)
(* None is inductive alone.  What is promised at the end of a plan is held *)
(* against what the plan has still to do: every field of a scope either is *)
(* as requested or is set by a step ahead.                                 *)
(***************************************************************************)
EXTENDS ScopeServiceProofs

\* The steps that lie ahead.
Ahead(steps) == {steps[i] : i \in 1 .. Len(steps)}

Does(step, op) == step.do.op = op

\* The first step of `steps`, if there is one, creates the scope.
StartsAnew(steps) == steps # << >> /\ Does(Head(steps), "AddScope")

-----------------------------------------------------------------------------
(* The way to the scope a request asks for *)

\* The configuration that the steps start from.
Base(held, steps) == IF StartsAnew(steps) THEN Fresh(Head(steps).do.arg) ELSE held

\* Range writes: the one asked for comes last, and at most one comes before.
TowardsRange(base, steps, desired) ==
    /\ steps # << >> =>
         \A step \in Ahead(Tail(steps)) :
            Does(step, "SetRange") => step.do.arg = desired.range
    /\ \/ /\ base.range = desired.range
          /\ \A step \in Ahead(steps) : ~Does(step, "SetRange")
       \/ \E step \in Ahead(steps) :
            Does(step, "SetRange") /\ step.do.arg = desired.range

TowardsParams(base, steps, desired) ==
    /\ \A step \in Ahead(steps) : Does(step, "SetParams") => step.do.arg = desired.params
    /\ \/ base.params = desired.params
       \/ \E step \in Ahead(steps) : Does(step, "SetParams")

TowardsOptions(base, steps, desired) ==
    /\ \A step \in Ahead(steps) :
         /\ Does(step, "SetOptions") =>
              step.do.arg.dns = desired.dns /\ step.do.arg.gateway = desired.gateway
         /\ Does(step, "RemoveRouter") => desired.gateway = None
    /\ \/ base.dns = desired.dns
       \/ \E step \in Ahead(steps) : Does(step, "SetOptions")
    /\ \/ base.gateway = desired.gateway
       \/ desired.gateway # None /\ \E step \in Ahead(steps) : Does(step, "SetOptions")
       \/ \E step \in Ahead(steps) : Does(step, "RemoveRouter")

TowardsBoot(base, steps, desired) ==
    /\ \A step \in Ahead(steps) :
         /\ Does(step, "SetBootHost") => step.do.arg = desired.next
         /\ Does(step, "RemoveBootHost") => desired.next = None
         /\ Does(step, "SetBootFile") => step.do.arg = desired.file
         /\ Does(step, "RemoveBootFile") => desired.file = None
    /\ \/ base.next = desired.next
       \/ \E step \in Ahead(steps) : step.do.op \in {"SetBootHost", "RemoveBootHost"}
    /\ \/ base.file = desired.file
       \/ \E step \in Ahead(steps) : step.do.op \in {"SetBootFile", "RemoveBootFile"}

TowardsExclusions(base, steps, desired) ==
    /\ \A step \in Ahead(steps) :
         /\ Does(step, "AddExclusions") => step.do.arg \subseteq desired.exclusions
         /\ Does(step, "RemoveExclusions") => step.do.arg \cap desired.exclusions = {}
    /\ \A x \in desired.exclusions \ base.exclusions :
         \E step \in Ahead(steps) : Does(step, "AddExclusions") /\ x \in step.do.arg
    /\ \A x \in base.exclusions \ desired.exclusions :
         \E step \in Ahead(steps) : Does(step, "RemoveExclusions") /\ x \in step.do.arg

Towards(base, steps, desired) ==
    /\ base.mask = desired.mask
    /\ TowardsRange(base, steps, desired)
    /\ TowardsParams(base, steps, desired)
    /\ TowardsOptions(base, steps, desired)
    /\ TowardsBoot(base, steps, desired)
    /\ TowardsExclusions(base, steps, desired)

\* What the plans of create_scope and _converge_scope consist of.
WritingOps ==
    {"AddScope", "SetRange", "SetParams", "SetOptions", "SetBootHost", "SetBootFile",
     "RemoveRouter", "RemoveBootHost", "RemoveBootFile", "AddExclusions",
     "RemoveExclusions", "SetupFailover", "CreateRelationship", "AddToRelationship",
     "RemoveFromRelationship", "CleanupRelationship", "RemoveRelationship",
     "TuneRelationship", "Replicate"}

\* A write on its way: only its first step can create the scope, which then is
\* not there, and no error passes for success that is none.
Writing(held, steps, desired) ==
    /\ \A step \in Ahead(steps) :
         step.do.op \in WritingOps /\ step.tolerates \subseteq {"alreadyExists", "notFound"}
    /\ steps # << >> => \A step \in Ahead(Tail(steps)) : ~Does(step, "AddScope")
    /\ StartsAnew(steps) <=> held = None
    /\ Towards(Base(held, steps), steps, desired)

WritesOnTheWay ==
    \A r \in Requests : pc[r] \in {"create", "converge"} =>
        Writing(server.scopes[scope(r)], todo[r], request[r].desired)

-----------------------------------------------------------------------------
(* The way to a scope that is gone *)

DeletingOps ==
    {"RemoveFromRelationship", "CleanupRelationship", "RemoveRelationship",
     "RemoveExclusions", "RemoveScope"}

\* A delete on its way: unless the scope is in no relationship any more, the
\* next step takes it out of the one it is in; unless it is gone, a step ahead
\* removes it.
Deleting(srv, s, steps) ==
    /\ \A step \in Ahead(steps) :
         /\ step.do.op \in DeletingOps
         /\ step.do.op # "RemoveExclusions" => step.tolerates = {}
    /\ \/ RelationshipsOf(srv, s) = {}
       \/ /\ steps # << >>
          /\ Does(Head(steps), "RemoveFromRelationship")
          /\ RelationshipsOf(srv, s) = {Head(steps).do.arg}
    /\ Exists(srv, s) => \E step \in Ahead(steps) : Does(step, "RemoveScope")

DeletesOnTheWay ==
    \A r \in Requests : pc[r] = "delete" => Deleting(server, scope(r), todo[r])

\* The server lets no scope into a second relationship.
OneRelationship(srv) ==
    \A s \in Scopes : \A m, n \in RelationshipsOf(srv, s) : m = n

AllMembersExist(srv) ==
    \A s \in Scopes : RelationshipsOf(srv, s) # {} => Exists(srv, s)

\* Who has a reply is done.
RepliedIsDone == \A r \in Requests : reply[r] # None => pc[r] = "done"

\* A reply 200 to a write carries the configuration the write asked for.
RepliesAsAsked ==
    \A r \in Requests :
        reply[r] # None /\ reply[r].status = "ok" /\ verb(r) # "GET" =>
            [reply[r].body EXCEPT !.failover = None] =
                [request[r].desired EXCEPT !.failover = None]

\* Only a GET reads without the lock, and a DELETE makes no scope.
StagesByVerb ==
    \A r \in Requests :
        /\ pc[r] = "read" => verb(r) = "GET"
        /\ pc[r] \in {"create", "converge"} => verb(r) # "DELETE"

PInv ==
    /\ IInv /\ StagesByVerb
    /\ OneRelationship(server) /\ AllMembersExist(server)
    /\ WritesOnTheWay /\ DeletesOnTheWay
    /\ RepliedIsDone /\ RepliesAsAsked

-----------------------------------------------------------------------------
(* The way to a relationship that is not empty *)

\* Whoever takes a scope out of a relationship looks next whether to remove it.
LooksAfterLeaving(steps) ==
    \A i \in 1 .. Len(steps) : Does(steps[i], "RemoveFromRelationship") =>
        /\ i < Len(steps)
        /\ steps[i + 1].do = [op |-> "CleanupRelationship", arg |-> steps[i].do.arg]

\* The next step of r looks at the relationship n, or removes it.
Clearing(r, n) ==
    /\ pc[r] \in {"create", "converge", "delete"}
    /\ todo[r] # << >>
    /\ Head(todo[r]).do.op \in {"CleanupRelationship", "RemoveRelationship"}
    /\ Head(todo[r]).do.arg = n

EmptiesCleared ==
    faults = 0 =>
        \A n \in Names : server.rels[n] # None /\ server.rels[n].members = {} =>
            \E r \in Requests : Clearing(r, n)

\* Whoever has left a script behind has met a fault.
LateIsFault == faults = 0 => late = {}

AllLook == \A r \in Requests : LooksAfterLeaving(todo[r])

OInv == IInv /\ AllLook /\ LateIsFault /\ EmptiesCleared

-----------------------------------------------------------------------------
(* Steps ahead *)

\* What lies ahead: nothing,
LEMMA AheadEmpty == Ahead(<< >>) = {}
  BY DEF Ahead

\* one step,
LEMMA AheadOne ==
    ASSUME NEW x
    PROVE  Ahead(<<x>>) = {x}
  BY DEF Ahead

\* and two.
LEMMA AheadTwo ==
    ASSUME NEW x, NEW y
    PROVE  Ahead(<<x, y>>) = {x, y}
  BY DEF Ahead

\* The next step, and those after it.
LEMMA AheadHead ==
    ASSUME NEW S, NEW steps \in Seq(S), steps # << >>
    PROVE  /\ Ahead(steps) = {Head(steps)} \cup Ahead(Tail(steps))
           /\ Head(steps) \in S /\ Tail(steps) \in Seq(S)
  <1>1. /\ Len(steps) \in Nat \ {0} /\ Head(steps) = steps[1]
        /\ Head(steps) \in S /\ Tail(steps) \in Seq(S)
        /\ Len(Tail(steps)) = Len(steps) - 1
        /\ \A i \in 1 .. Len(steps) - 1 : Tail(steps)[i] = steps[i + 1]
    OBVIOUS
  <1>2. ASSUME NEW i \in 1 .. Len(steps)
        PROVE  steps[i] \in {Head(steps)} \cup Ahead(Tail(steps))
    <2>1. CASE i = 1
      BY <1>1, <2>1
    <2>2. CASE i # 1
      <3>1. i - 1 \in 1 .. Len(Tail(steps)) /\ Tail(steps)[i - 1] = steps[i]
        BY <1>1, <2>2
      <3>2. QED
        BY <3>1 DEF Ahead
    <2>3. QED
      BY <2>1, <2>2
  <1>3. ASSUME NEW i \in 1 .. Len(Tail(steps))
        PROVE  Tail(steps)[i] \in Ahead(steps)
    <2>1. i + 1 \in 1 .. Len(steps) /\ Tail(steps)[i] = steps[i + 1]
      BY <1>1
    <2>2. QED
      BY <2>1 DEF Ahead
  <1>4. Head(steps) \in Ahead(steps)
    BY <1>1 DEF Ahead
  <1>5. Ahead(steps) \subseteq {Head(steps)} \cup Ahead(Tail(steps))
    BY <1>2 DEF Ahead
  <1>6. Ahead(Tail(steps)) \subseteq Ahead(steps)
    BY <1>3 DEF Ahead
  <1>7. QED
    BY <1>1, <1>4, <1>5, <1>6

\* One sequence of steps after another.
LEMMA AheadConcat ==
    ASSUME NEW S, NEW s \in Seq(S), NEW t \in Seq(S)
    PROVE  Ahead(s \o t) = Ahead(s) \cup Ahead(t)
  <1>1. /\ Len(s) \in Nat /\ Len(t) \in Nat /\ Len(s \o t) = Len(s) + Len(t)
        /\ \A i \in 1 .. Len(s) : (s \o t)[i] = s[i]
        /\ \A i \in 1 .. Len(t) : (s \o t)[Len(s) + i] = t[i]
    OBVIOUS
  <1>2. ASSUME NEW i \in 1 .. Len(s \o t)
        PROVE  (s \o t)[i] \in Ahead(s) \cup Ahead(t)
    <2>1. CASE i \in 1 .. Len(s)
      BY <1>1, <2>1 DEF Ahead
    <2>2. CASE i \notin 1 .. Len(s)
      <3>1. i - Len(s) \in 1 .. Len(t) /\ (s \o t)[i] = t[i - Len(s)]
        BY <1>1, <2>2
      <3>2. QED
        BY <3>1 DEF Ahead
    <2>3. QED
      BY <2>1, <2>2
  <1>3. ASSUME NEW i \in 1 .. Len(s)
        PROVE  s[i] \in Ahead(s \o t)
    BY <1>1 DEF Ahead
  <1>4. ASSUME NEW i \in 1 .. Len(t)
        PROVE  t[i] \in Ahead(s \o t)
    <2>1. Len(s) + i \in 1 .. Len(s \o t)
      BY <1>1
    <2>2. QED
      BY <1>1, <2>1 DEF Ahead
  <1>5. QED
    BY <1>2, <1>3, <1>4 DEF Ahead

\* The same of the steps of plans.
LEMMA AheadSteps ==
    ASSUME NEW s \in Seq(Step), NEW t \in Seq(Step)
    PROVE  s \o t \in Seq(Step) /\ Ahead(s \o t) = Ahead(s) \cup Ahead(t)
  BY AheadConcat, ConcatType

\* A part of a plan that is there on a condition.
LEMMA AheadWhen ==
    ASSUME NEW condition \in BOOLEAN, NEW steps
    PROVE  Ahead(When(condition, steps)) = IF condition THEN Ahead(steps) ELSE {}
  BY AheadEmpty DEF When
-----------------------------------------------------------------------------
(* What a cmdlet does to a scope's configuration *)

\* The configuration after a write that the server accepts.
Applied(held, c) ==
    CASE c.op = "SetRange" -> [held EXCEPT !.range = c.arg]
      [] c.op = "SetParams" -> [held EXCEPT !.params = c.arg]
      [] c.op = "SetOptions" ->
           [held EXCEPT !.dns = c.arg.dns,
                        !.gateway = IF c.arg.gateway = None THEN @ ELSE c.arg.gateway]
      [] c.op = "SetBootHost" -> [held EXCEPT !.next = c.arg]
      [] c.op = "SetBootFile" -> [held EXCEPT !.file = c.arg]
      [] c.op = "RemoveRouter" -> [held EXCEPT !.gateway = None]
      [] c.op = "RemoveBootHost" -> [held EXCEPT !.next = None]
      [] c.op = "RemoveBootFile" -> [held EXCEPT !.file = None]
      [] c.op = "AddExclusion" -> [held EXCEPT !.exclusions = @ \cup {c.arg}]
      [] c.op = "RemoveExclusion" -> [held EXCEPT !.exclusions = @ \ {c.arg}]
      [] OTHER -> held

ConfigOps == {"SetRange", "SetParams", "SetOptions", "SetBootHost", "SetBootFile",
              "RemoveRouter", "RemoveBootHost", "RemoveBootFile", "AddExclusion",
              "RemoveExclusion"}

\* The arguments of the cmdlets that write a configuration.
LEMMA ConfigArgs ==
    ASSUME NEW c \in Cmdlet
    PROVE  /\ c.op = "AddScope" => c.arg \in [mask : Masks, range : Range, params : Params]
           /\ c.op \in {"SetRange", "AddExclusion", "RemoveExclusion"} => c.arg \in Range
           /\ c.op = "SetParams" => c.arg \in Params
           /\ c.op = "SetOptions" => c.arg \in [dns : Dns, gateway : Address \cup {None}]
           /\ c.op = "SetBootHost" => c.arg \in BootHosts
           /\ c.op = "SetBootFile" => c.arg \in BootFiles
           /\ c.op \in {"CreateRelationship", "TuneRelationship"} => c.arg \in Failover
           /\ c.op \in {"AddToRelationship", "RemoveFromRelationship",
                        "RemoveRelationship"} => c.arg \in Names
           /\ c.op \in ConfigOps \cup RelationshipOps \cup
                 {"AddScope", "RemoveScope", "Replicate", "CreateRelationship",
                  "AddToRelationship"}
  BY DEF Cmdlet, ConfigOps, RelationshipOps

\* A write leaves a configuration.
LEMMA AppliedType ==
    ASSUME NEW held \in ScopeConfig, NEW c \in Cmdlet
    PROVE  Applied(held, c) \in ScopeConfig
  <1>1. CASE c.op \notin ConfigOps
    BY <1>1 DEF Applied, ConfigOps
  <1>2. CASE c.op = "SetRange"
    BY <1>2, ConfigArgs DEF Applied, ScopeConfig
  <1>3. CASE c.op = "SetParams"
    BY <1>3, ConfigArgs DEF Applied, ScopeConfig
  <1>4. CASE c.op = "SetOptions"
    <2> DEFINE router == IF c.arg.gateway = None THEN held.gateway ELSE c.arg.gateway
    <2>1. router \in Address \cup {None} /\ c.arg.dns \in Dns
      BY <1>4, ConfigArgs DEF ScopeConfig
    <2>2. Applied(held, c) = [held EXCEPT !.dns = c.arg.dns, !.gateway = router]
      BY <1>4 DEF Applied, ScopeConfig
    <2> HIDE DEF router
    <2>3. QED
      BY <2>1, <2>2 DEF ScopeConfig
  <1>5. CASE c.op \in {"SetBootHost", "SetBootFile"}
    BY <1>5, ConfigArgs DEF Applied, ScopeConfig
  <1>6. CASE c.op \in {"RemoveRouter", "RemoveBootHost", "RemoveBootFile"}
    BY <1>6 DEF Applied, ScopeConfig
  <1>7. CASE c.op \in {"AddExclusion", "RemoveExclusion"}
    BY <1>7, ConfigArgs DEF Applied, ScopeConfig
  <1>8. QED
    BY <1>1, <1>2, <1>3, <1>4, <1>5, <1>6, <1>7 DEF ConfigOps

\* Applying a write twice is applying it once.
LEMMA AppliedTwice ==
    ASSUME NEW held \in ScopeConfig, NEW c \in Cmdlet
    PROVE  Applied(Applied(held, c), c) = Applied(held, c)
  <1>1. CASE c.op \in ConfigOps \ {"SetOptions"}
    BY ZenonT(30), <1>1 DEF Applied, ConfigOps, ScopeConfig
  <1>2. CASE c.op = "SetOptions"
    BY <1>2 DEF Applied, ScopeConfig
  <1>3. CASE c.op \notin ConfigOps
    BY <1>3 DEF Applied, ConfigOps
  <1>4. QED
    BY <1>1, <1>2, <1>3

\* Unless the range is refused, the server ends up with the write applied, also
\* where it reports that there was nothing to do.
LEMMA RunApplies ==
    ASSUME NEW srv \in Server, NEW s \in Scopes, NEW c \in Cmdlet, Exists(srv, s),
           c.op \notin {"AddScope", "RemoveScope"}
    PROVE  /\ Run(srv, s, c).outcome # "refused" =>
                 Run(srv, s, c).server.scopes[s] = Applied(srv.scopes[s], c)
           /\ Run(srv, s, c).outcome = "refused" => Run(srv, s, c).server = srv
  <1> DEFINE held == srv.scopes[s]
             answer == Run(srv, s, c)
  <1>0. held \in ScopeConfig
    BY DEF Exists, Server
  <1>a. ASSUME NEW config \in ScopeConfig
        PROVE  /\ Configure(srv, s, config).server.scopes[s] = config
               /\ Configure(srv, s, config).outcome = "ok"
    BY DEF Configure, Answers, Server
  <1>1. CASE c.op \in RelationshipOps
    <2>1. answer = RunOnRelationship(srv, s, c)
      BY <1>1 DEF Run, RelationshipOps
    <2>2. Applied(held, c) = held
      BY <1>1 DEF Applied, RelationshipOps
    <2>3. CASE c.op = "RemoveFromRelationship"
      BY <2>1, <2>2, <2>3
         DEF RunOnRelationship, RemoveFromRelationship, Answers, Server
    <2>4. CASE c.op = "RemoveRelationship"
      BY <2>1, <2>2, <2>4 DEF RunOnRelationship, RemoveRelationship, Answers, Server
    <2>5. CASE c.op = "TuneRelationship"
      BY <2>1, <2>2, <2>5 DEF RunOnRelationship, TuneRelationship, Answers, Server
    <2>6. QED
      BY <1>1, <2>3, <2>4, <2>5 DEF RelationshipOps
  <1>2. CASE c.op \notin RelationshipOps
    <2>1. answer = RunOnScope(srv, s, c)
      BY <1>2 DEF Run
    <2>2. CASE c.op = "SetRange"
      <3>1. Applied(held, c) \in ScopeConfig
        BY <1>0, AppliedType
      <3>2. Applied(held, c) = [held EXCEPT !.range = c.arg]
        BY <2>2 DEF Applied
      <3>3. answer = SetRange(srv, s, c.arg)
        BY <2>1, <2>2 DEF RunOnScope
      <3>4. QED
        BY <3>1, <3>2, <3>3, <1>a DEF SetRange, Answers
    <2>3. CASE c.op = "SetParams"
      <3>1. answer = Configure(srv, s, Applied(held, c))
        BY <2>1, <2>3 DEF RunOnScope, Applied
      <3>2. QED
        BY <3>1, <1>0, <1>a, AppliedType
    <2>4. CASE c.op = "SetOptions"
      <3>1. answer = Configure(srv, s, Applied(held, c))
        BY <2>1, <2>4 DEF RunOnScope, SetOptions, Applied
      <3>2. QED
        BY <3>1, <1>0, <1>a, AppliedType
    <2>5. CASE c.op = "SetBootHost"
      <3>1. answer = Configure(srv, s, Applied(held, c))
        BY <2>1, <2>5 DEF RunOnScope, Applied
      <3>2. QED
        BY <3>1, <1>0, <1>a, AppliedType
    <2>6. CASE c.op = "SetBootFile"
      <3>1. answer = Configure(srv, s, Applied(held, c))
        BY <2>1, <2>6 DEF RunOnScope, Applied
      <3>2. QED
        BY <3>1, <1>0, <1>a, AppliedType
    <2>7. CASE c.op = "RemoveRouter"
      <3>1. answer = RemoveRouter(srv, s) /\ Applied(held, c) = [held EXCEPT !.gateway = None]
        BY <2>1, <2>7 DEF RunOnScope, Applied
      <3>2. held.gateway = None => Applied(held, c) = held
        BY <1>0, <3>1 DEF ScopeConfig
      <3>3. QED
        BY <3>1, <3>2, <1>0, <1>a, AppliedType DEF RemoveRouter, Answers
    <2>8. CASE c.op = "RemoveBootHost"
      <3>1. answer = RemoveBootHost(srv, s) /\ Applied(held, c) = [held EXCEPT !.next = None]
        BY <2>1, <2>8 DEF RunOnScope, Applied
      <3>2. held.next = None => Applied(held, c) = held
        BY <1>0, <3>1 DEF ScopeConfig
      <3>3. QED
        BY <3>1, <3>2, <1>0, <1>a, AppliedType DEF RemoveBootHost, Answers
    <2>9. CASE c.op = "RemoveBootFile"
      <3>1. answer = RemoveBootFile(srv, s) /\ Applied(held, c) = [held EXCEPT !.file = None]
        BY <2>1, <2>9 DEF RunOnScope, Applied
      <3>2. held.file = None => Applied(held, c) = held
        BY <1>0, <3>1 DEF ScopeConfig
      <3>3. QED
        BY <3>1, <3>2, <1>0, <1>a, AppliedType DEF RemoveBootFile, Answers
    <2>10. CASE c.op = "AddExclusion"
      <3>1. /\ answer = AddExclusion(srv, s, c.arg)
            /\ Applied(held, c) = [held EXCEPT !.exclusions = held.exclusions \cup {c.arg}]
        BY <2>1, <2>10 DEF RunOnScope, Applied
      <3>2. c.arg \in held.exclusions => held.exclusions \cup {c.arg} = held.exclusions
        OBVIOUS
      <3>3. c.arg \in held.exclusions => Applied(held, c) = held
        BY <1>0, <3>1, <3>2 DEF ScopeConfig
      <3>4. QED
        BY <3>1, <3>3, <1>0, <1>a, AppliedType DEF AddExclusion, Answers
    <2>11. CASE c.op = "RemoveExclusion"
      <3>1. /\ answer = RemoveExclusion(srv, s, c.arg)
            /\ Applied(held, c) = [held EXCEPT !.exclusions = held.exclusions \ {c.arg}]
        BY <2>1, <2>11 DEF RunOnScope, Applied
      <3>2. c.arg \notin held.exclusions => held.exclusions \ {c.arg} = held.exclusions
        OBVIOUS
      <3>3. c.arg \notin held.exclusions => Applied(held, c) = held
        BY <1>0, <3>1, <3>2 DEF ScopeConfig
      <3>4. QED
        BY <3>1, <3>3, <1>0, <1>a, AppliedType DEF RemoveExclusion, Answers
    <2>12. CASE c.op = "CreateRelationship"
      BY <2>1, <2>12 DEF RunOnScope, CreateRelationship, Applied, Answers, Server
    <2>13. CASE c.op = "AddToRelationship"
      BY <2>1, <2>13 DEF RunOnScope, AddToRelationship, Applied, Answers, Server
    <2>14. CASE c.op = "Replicate"
      BY <2>1, <2>14 DEF RunOnScope, Replicate, Applied, Answers, Server
    <2>15. QED
      BY <1>2, <2>2, <2>3, <2>4, <2>5, <2>6, <2>7, <2>8, <2>9, <2>10, <2>11, <2>12,
         <2>13, <2>14, ConfigArgs DEF ConfigOps
  <1>3. QED
    BY <1>1, <1>2

\* Creating and removing a scope.
LEMMA RunCreates ==
    ASSUME NEW srv \in Server, NEW s \in Scopes, NEW c \in Cmdlet, c.op = "AddScope"
    PROVE  /\ ~Exists(srv, s) => Run(srv, s, c).server.scopes[s] = Fresh(c.arg)
           /\ Exists(srv, s) => Run(srv, s, c).server = srv
           /\ Fresh(c.arg) \in ScopeConfig /\ Fresh(c.arg) # None
  <1>1. Fresh(c.arg) \in ScopeConfig
    BY ConfigArgs DEF Fresh, ScopeConfig
  <1>2. Run(srv, s, c) = IF Exists(srv, s) THEN Answers("alreadyExists", srv)
                                           ELSE Configure(srv, s, Fresh(c.arg))
    BY DEF Run, RelationshipOps
  <1>3. QED
    BY <1>1, <1>2, AbsentIsNoValue DEF Configure, Answers, Server

\* Remove-DhcpServerv4Scope leaves no scope, found or not.
LEMMA RunRemoves ==
    ASSUME NEW srv \in Server, NEW s \in Scopes, NEW c \in Cmdlet, c.op = "RemoveScope"
    PROVE  ~Exists(Run(srv, s, c).server, s)
  <1>1. Run(srv, s, c) = IF Exists(srv, s) THEN RemoveScope(srv, s)
                                           ELSE Answers("notFound", srv)
    BY DEF Run, RunOnScope, RelationshipOps
  <1>2. QED
    BY <1>1 DEF RemoveScope, Answers, Server, Exists

\* The cmdlets of a relationship leave the scopes alone.
LEMMA RunLeavesScopes ==
    ASSUME NEW srv \in Server, NEW s \in Scopes, NEW c \in Cmdlet,
           c.op \notin ConfigOps \cup {"AddScope", "RemoveScope"}
    PROVE  Run(srv, s, c).server.scopes = srv.scopes
  <1>1. CASE c.op \in RelationshipOps
    BY <1>1 DEF Run, RunOnRelationship, RelationshipOps, RemoveFromRelationship,
                RemoveRelationship, TuneRelationship, Answers, Server
  <1>2. CASE c.op \in {"CreateRelationship", "AddToRelationship", "Replicate"}
    BY <1>2 DEF Run, RunOnScope, RelationshipOps, CreateRelationship,
                AddToRelationship, Replicate, Answers, Server
  <1>3. QED
    BY <1>1, <1>2, ConfigArgs

\* The others leave the relationships alone, and any scope but the one they are
\* about.
LEMMA RunLeavesRelationships ==
    ASSUME NEW srv \in Server, NEW s \in Scopes, NEW c \in Cmdlet,
           c.op \in ConfigOps \cup {"AddScope", "RemoveScope"}
    PROVE  /\ Run(srv, s, c).server.rels = srv.rels
           /\ \A t \in Scopes \ {s} : Run(srv, s, c).server.scopes[t] = srv.scopes[t]
  <1>1. \/ \E config : Run(srv, s, c) = Configure(srv, s, config)
        \/ \E outcome : Run(srv, s, c) = Answers(outcome, srv)
        \/ Run(srv, s, c) = RemoveScope(srv, s)
    <2>1. CASE c.op = "AddScope"
      BY <2>1 DEF Run, RelationshipOps
    <2>2. CASE c.op \in {"RemoveScope", "SetRange", "SetParams", "SetOptions",
                         "SetBootHost", "SetBootFile"}
      BY <2>2 DEF Run, RelationshipOps, RunOnScope, SetRange, SetOptions
    <2>3. CASE c.op \in {"RemoveRouter", "RemoveBootHost", "RemoveBootFile"}
      BY <2>3 DEF Run, RelationshipOps, RunOnScope, RemoveRouter,
                  RemoveBootHost, RemoveBootFile
    <2>4. CASE c.op \in {"AddExclusion", "RemoveExclusion"}
      BY <2>4 DEF Run, RelationshipOps, RunOnScope, AddExclusion, RemoveExclusion
    <2>5. QED
      BY <2>1, <2>2, <2>3, <2>4 DEF ConfigOps
  <1>2. ASSUME NEW config, Run(srv, s, c) = Configure(srv, s, config)
        PROVE  /\ Run(srv, s, c).server.rels = srv.rels
               /\ \A t \in Scopes \ {s} : Run(srv, s, c).server.scopes[t] = srv.scopes[t]
    <2>1. Run(srv, s, c).server = [srv EXCEPT !.scopes[s] = config, !.synced = @ \ {s}]
      BY <1>2 DEF Configure, Answers
    <2>2. QED
      BY <2>1 DEF Server
  <1>3. ASSUME NEW outcome, Run(srv, s, c) = Answers(outcome, srv)
        PROVE  Run(srv, s, c).server = srv
    BY <1>3 DEF Answers
  <1>4. CASE Run(srv, s, c) = RemoveScope(srv, s)
    <2>1. Run(srv, s, c).server = [srv EXCEPT !.scopes[s] = None, !.synced = @ \ {s}]
      BY <1>4 DEF RemoveScope, Answers
    <2>2. QED
      BY <2>1 DEF Server
  <1>5. QED
    BY <1>1, <1>2, <1>3, <1>4

-----------------------------------------------------------------------------
(* What a cmdlet does to the relationships *)

Lists(srv, n, s) == srv.rels[n] # None /\ s \in srv.rels[n].members

\* A cmdlet about s lists no other scope anywhere; it lists s in one relationship
\* when s exists and is in none.
LEMMA RunLists ==
    ASSUME NEW srv \in Server, NEW s \in Scopes, NEW c \in Cmdlet,
           NEW n \in Names, NEW t \in Scopes,
           Lists(Run(srv, s, c).server, n, t), ~Lists(srv, n, t)
    PROVE  /\ t = s /\ Exists(srv, s) /\ RelationshipsOf(srv, s) = {}
           /\ \/ c.op = "CreateRelationship" /\ n = c.arg.name
              \/ c.op = "AddToRelationship" /\ n = c.arg
  <1> DEFINE new == Run(srv, s, c).server
  <1>1. ASSUME new.rels = srv.rels PROVE FALSE
    BY <1>1 DEF Lists
  <1>2. c.op \notin ConfigOps \cup {"AddScope", "RemoveScope"}
    BY <1>1, RunLeavesRelationships
  <1>3. c.op # "Replicate"
    BY <1>1 DEF Run, RelationshipOps, RunOnScope, Replicate, Answers, Server
  <1>4. CASE c.op \in RelationshipOps
    <2>1. Run(srv, s, c) = RunOnRelationship(srv, s, c)
      BY <1>4 DEF Run, RelationshipOps
    <2>2. CASE c.op = "RemoveFromRelationship"
      BY <2>1, <2>2, ConfigArgs
         DEF RunOnRelationship, RemoveFromRelationship, Answers, Server, Lists, Relationship
    <2>3. CASE c.op = "RemoveRelationship"
      BY <2>1, <2>3, ConfigArgs
         DEF RunOnRelationship, RemoveRelationship, Answers, Server, Lists
    <2>4. CASE c.op = "TuneRelationship"
      BY <2>1, <2>4, ConfigArgs
         DEF RunOnRelationship, TuneRelationship, Answers, Server, Lists, Relationship,
             Failover
    <2>5. QED
      BY <1>4, <2>2, <2>3, <2>4 DEF RelationshipOps
  <1>5. CASE c.op \in {"CreateRelationship", "AddToRelationship"}
    <2>1. Run(srv, s, c) = IF Exists(srv, s) THEN RunOnScope(srv, s, c)
                                             ELSE Answers("notFound", srv)
      BY <1>5 DEF Run, RelationshipOps
    <2>2. Exists(srv, s)
      BY <1>1, <2>1 DEF Answers
    <2>3. CASE c.op = "CreateRelationship"
      <3>1. Run(srv, s, c) = CreateRelationship(srv, s, c.arg)
        BY <2>1, <2>2, <2>3 DEF RunOnScope
      <3>2. c.arg.name \in Names
        BY <2>3, ConfigArgs DEF Failover
      <3>3. RelationshipsOf(srv, s) = {}
        BY <3>1, <1>1 DEF CreateRelationship, Answers
      <3>4. /\ new.rels[c.arg.name].members = {s}
            /\ \A m \in Names \ {c.arg.name} : new.rels[m] = srv.rels[m]
        BY <3>1, <3>2, <3>3, <1>1 DEF CreateRelationship, Answers, Server
      <3>5. QED
        BY <2>2, <2>3, <3>2, <3>3, <3>4 DEF Lists
    <2>4. CASE c.op = "AddToRelationship"
      <3>1. Run(srv, s, c) = AddToRelationship(srv, s, c.arg)
        BY <2>1, <2>2, <2>4 DEF RunOnScope
      <3>2. c.arg \in Names
        BY <2>4, ConfigArgs
      <3>3. RelationshipsOf(srv, s) = {} /\ srv.rels[c.arg] # None
        BY <3>1, <1>1 DEF AddToRelationship, Answers
      <3>4. new = [srv EXCEPT !.rels[c.arg].members = @ \cup {s}, !.synced = @ \cup {s}]
        BY <3>1, <3>3, <1>1 DEF AddToRelationship, Answers
      <3>5. srv.rels[c.arg] \in Relationship
        BY <3>2, <3>3 DEF Server
      <3>6. /\ new.rels[c.arg].members = srv.rels[c.arg].members \cup {s}
            /\ \A m \in Names \ {c.arg} : new.rels[m] = srv.rels[m]
        BY <3>2, <3>4, <3>5 DEF Server, Relationship
      <3>7. QED
        BY <2>2, <2>4, <3>2, <3>3, <3>6 DEF Lists
    <2>5. QED
      BY <1>5, <2>3, <2>4
  <1>6. QED
    BY <1>2, <1>3, <1>4, <1>5, ConfigArgs

\* The relationships of a scope are those that list it.
LEMMA RelationshipsOfLists ==
    ASSUME NEW srv, NEW s, NEW n
    PROVE  n \in RelationshipsOf(srv, s) <=> n \in Names /\ Lists(srv, n, s)
  BY DEF RelationshipsOf, Lists

\* A scope is in no second relationship, whatever cmdlet is run.
LEMMA RunOneRelationship ==
    ASSUME NEW srv \in Server, NEW s \in Scopes, NEW c \in Cmdlet,
           OneRelationship(srv)
    PROVE  OneRelationship(Run(srv, s, c).server)
  <1> DEFINE new == Run(srv, s, c).server
  <1>1. SUFFICES ASSUME NEW t \in Scopes, NEW m \in Names, NEW n \in Names,
                        Lists(new, m, t), Lists(new, n, t)
                 PROVE  m = n
    BY RelationshipsOfLists DEF OneRelationship
  <1>2. CASE Lists(srv, m, t) /\ Lists(srv, n, t)
    BY <1>2, RelationshipsOfLists DEF OneRelationship
  <1>3. CASE ~Lists(srv, m, t)
    <2>1. t = s /\ RelationshipsOf(srv, s) = {}
      BY <1>1, <1>3, RunLists
    <2>2. ~Lists(srv, n, t)
      BY <2>1, RelationshipsOfLists
    <2>3. QED
      BY <1>1, <1>3, <2>2, RunLists
  <1>4. CASE ~Lists(srv, n, t)
    <2>1. t = s /\ RelationshipsOf(srv, s) = {}
      BY <1>1, <1>4, RunLists
    <2>2. ~Lists(srv, m, t)
      BY <2>1, RelationshipsOfLists
    <2>3. QED
      BY <1>1, <1>4, <2>2, RunLists
  <1>5. QED
    BY <1>2, <1>3, <1>4

\* What a cmdlet about s leaves of any other scope.
LEMMA RunElsewhere ==
    ASSUME NEW srv \in Server, NEW s \in Scopes, NEW c \in Cmdlet,
           NEW t \in Scopes, t # s
    PROVE  /\ Run(srv, s, c).server.scopes[t] = srv.scopes[t]
           /\ RelationshipsOf(Run(srv, s, c).server, t) \subseteq RelationshipsOf(srv, t)
  <1>1. Run(srv, s, c).server.scopes[t] = srv.scopes[t]
    BY RunLeavesScopes, RunLeavesRelationships
  <1>2. QED
    BY <1>1, RunLists, RelationshipsOfLists

\* No scope is listed that does not exist, if none is removed that is listed.
LEMMA RunMembersExist ==
    ASSUME NEW srv \in Server, NEW s \in Scopes, NEW c \in Cmdlet,
           AllMembersExist(srv), c.op = "RemoveScope" => RelationshipsOf(srv, s) = {}
    PROVE  AllMembersExist(Run(srv, s, c).server)
  <1> DEFINE new == Run(srv, s, c).server
  <1>1. SUFFICES ASSUME NEW t \in Scopes, NEW n \in Names, Lists(new, n, t)
                 PROVE  Exists(new, t)
    BY RelationshipsOfLists DEF AllMembersExist
  <1>2. Exists(srv, t)
    BY <1>1, RunLists, RelationshipsOfLists DEF AllMembersExist
  <1>3. CASE t # s
    BY <1>2, <1>3, RunElsewhere DEF Exists
  <1>4. CASE t = s
    <2>1. c.op # "RemoveScope"
      <3>1. SUFFICES ASSUME c.op = "RemoveScope" PROVE FALSE
        OBVIOUS
      <3>2. ~Lists(srv, n, t)
        BY <1>4, <3>1, RelationshipsOfLists
      <3>3. QED
        BY <1>1, <3>1, <3>2, RunLists
    <2>2. CASE c.op = "AddScope"
      BY <1>2, <1>4, <2>2, RunCreates
    <2>3. CASE c.op # "AddScope"
      <3>1. Applied(srv.scopes[s], c) \in ScopeConfig
        BY <1>2, <1>4, AppliedType DEF Exists, Server
      <3>2. QED
        BY <1>2, <1>4, <2>1, <2>3, <3>1, RunApplies, AbsentIsNoValue DEF Exists
    <2>4. QED
      BY <2>2, <2>3
  <1>5. QED
    BY <1>3, <1>4

-----------------------------------------------------------------------------
(* What the plans lead to *)

\* What follows the first step of one sequence after another.
LEMMA AheadOfTail ==
    ASSUME NEW s \in Seq(Step), NEW t \in Seq(Step), s # << >>
    PROVE  /\ s \o t # << >> /\ Head(s \o t) = Head(s)
           /\ Ahead(Tail(s \o t)) = Ahead(Tail(s)) \cup Ahead(t)
  <1>1. Tail(s \o t) = Tail(s) \o t
    OBVIOUS
  <1>2. Tail(s) \in Seq(Step) /\ s \o t # << >> /\ Head(s \o t) = Head(s)
    OBVIOUS
  <1>3. Ahead(Tail(s) \o t) = Ahead(Tail(s)) \cup Ahead(t)
    BY <1>2, AheadSteps
  <1>4. QED
    BY <1>1, <1>2, <1>3

\* Steps that write no range may follow.
LEMMA TowardsRangeConcat ==
    ASSUME NEW base, NEW desired, NEW s \in Seq(Step), NEW t \in Seq(Step),
           TowardsRange(base, s, desired),
           \A step \in Ahead(t) : ~Does(step, "SetRange")
    PROVE  TowardsRange(base, s \o t, desired)
  <1>1. Ahead(s \o t) = Ahead(s) \cup Ahead(t)
    BY AheadConcat
  <1>2. CASE s = << >>
    <2>1. s \o t = t
      BY <1>2
    <2>2. t # << >> => Ahead(Tail(t)) \subseteq Ahead(t)
      BY AheadHead
    <2>3. QED
      BY <1>1, <1>2, <2>1, <2>2 DEF TowardsRange
  <1>3. CASE s # << >>
    <2>1. Ahead(Tail(s \o t)) = Ahead(Tail(s)) \cup Ahead(t)
      BY <1>3, AheadOfTail
    <2>2. QED
      BY <1>1, <1>3, <2>1 DEF TowardsRange
  <1>4. QED
    BY <1>2, <1>3

\* Whoever leaves a relationship looks after it in either part.
LEMMA LooksConcat ==
    ASSUME NEW s \in Seq(Step), NEW t \in Seq(Step),
           LooksAfterLeaving(s), LooksAfterLeaving(t)
    PROVE  LooksAfterLeaving(s \o t)
  <1>1. /\ Len(s) \in Nat /\ Len(t) \in Nat /\ Len(s \o t) = Len(s) + Len(t)
        /\ \A i \in 1 .. Len(s) : (s \o t)[i] = s[i]
        /\ \A i \in 1 .. Len(t) : (s \o t)[Len(s) + i] = t[i]
    OBVIOUS
  <1>2. SUFFICES ASSUME NEW i \in 1 .. Len(s \o t),
                        Does((s \o t)[i], "RemoveFromRelationship")
                 PROVE  /\ i < Len(s \o t)
                        /\ (s \o t)[i + 1].do =
                             [op |-> "CleanupRelationship", arg |-> (s \o t)[i].do.arg]
    BY DEF LooksAfterLeaving
  <1>3. CASE i \in 1 .. Len(s)
    <2>1. (s \o t)[i] = s[i] /\ i < Len(s)
      BY <1>1, <1>2, <1>3 DEF LooksAfterLeaving
    <2>2. i + 1 \in 1 .. Len(s) /\ (s \o t)[i + 1] = s[i + 1]
      BY <1>1, <1>3, <2>1
    <2>3. QED
      BY <1>1, <1>2, <1>3, <2>1, <2>2 DEF LooksAfterLeaving
  <1>4. CASE i \notin 1 .. Len(s)
    <2> DEFINE j == i - Len(s)
    <2>1. j \in 1 .. Len(t) /\ (s \o t)[i] = t[j]
      BY <1>1, <1>4
    <2>2. j < Len(t) /\ t[j + 1].do = [op |-> "CleanupRelationship", arg |-> t[j].do.arg]
      BY <1>2, <2>1 DEF LooksAfterLeaving
    <2>3. j + 1 \in 1 .. Len(t) /\ Len(s) + (j + 1) = i + 1
      BY <1>1, <2>1, <2>2
    <2>4. (s \o t)[i + 1] = t[j + 1]
      BY <1>1, <2>3
    <2>5. QED
      BY <1>1, <2>1, <2>2, <2>4
  <1>5. QED
    BY <1>3, <1>4

\* Nothing to look after where no relationship is left.
LEMMA NeverLeaves ==
    ASSUME NEW steps, \A step \in Ahead(steps) : ~Does(step, "RemoveFromRelationship")
    PROVE  LooksAfterLeaving(steps)
  BY DEF LooksAfterLeaving, Ahead

\* Leaving a relationship, as the plans do.
LEMMA LeavingLooks ==
    ASSUME NEW n \in Names
    PROVE  /\ LooksAfterLeaving(_remove_scope_from_failover(n))
           /\ Ahead(_remove_scope_from_failover(n)) =
                {Call("RemoveFromRelationship", n), Call("CleanupRelationship", n)}
           /\ _remove_scope_from_failover(n) # << >>
           /\ Head(_remove_scope_from_failover(n)) = Call("RemoveFromRelationship", n)
  <1> DEFINE leave == Call("RemoveFromRelationship", n)
             look == Call("CleanupRelationship", n)
  <1>1. _remove_scope_from_failover(n) = <<leave, look>>
    BY DEF _remove_scope_from_failover
  <1>2. /\ leave.do.op = "RemoveFromRelationship" /\ leave.do.arg = n
        /\ look.do = [op |-> "CleanupRelationship", arg |-> n]
        /\ look.do.op = "CleanupRelationship"
    BY DEF Call
  <1> HIDE DEF leave, look
  <1>3. QED
    BY <1>1, <1>2, AheadTwo DEF LooksAfterLeaving, Does, leave, look

\* The parts of a converging write that do not concern failover.
RangePart(current, desired) == range_commands(current.range, desired.range)
ParamsPart(current, desired) ==
    When(current.params # desired.params, <<Call("SetParams", desired.params)>>)

\* The Set-DhcpServerv4Scope steps of a range change lead to the range asked for.
LEMMA RangePartLeads ==
    ASSUME NEW current \in Payload, NEW desired \in Payload
    PROVE  /\ \A step \in Ahead(RangePart(current, desired)) :
                Does(step, "SetRange") /\ step.tolerates = {}
           /\ TowardsRange(current, RangePart(current, desired), desired)
  <1> DEFINE ranges == _range_transition_steps(current.range, desired.range)
             union == Union(current.range, desired.range)
             part == RangePart(current, desired)
             first == Call("SetRange", union)
             last == Call("SetRange", desired.range)
  <1>1. current.range \in Range /\ desired.range \in Range
    BY DEF Payload
  <1>2. \/ current.range = desired.range /\ ranges = << >>
        \/ ranges = <<desired.range>>
        \/ ranges = <<union, desired.range>>
    BY <1>1, TransitionCases
  <1>3. part = [i \in 1 .. Len(ranges) |-> Call("SetRange", ranges[i])]
    BY DEF RangePart, range_commands
  <1>4. /\ first.do.op = "SetRange" /\ first.tolerates = {}
        /\ last.do.op = "SetRange" /\ last.do.arg = desired.range /\ last.tolerates = {}
    BY DEF Call
  <1>5. CASE current.range = desired.range /\ ranges = << >>
    <2> HIDE DEF ranges, part
    <2>1. part = << >>
      BY <1>3, <1>5
    <2>2. QED
      BY <1>5, <2>1, AheadEmpty DEF TowardsRange, part
  <1>6. CASE ranges = <<desired.range>>
    <2> HIDE DEF ranges, part
    <2>1. part = <<last>>
      BY <1>3, <1>6
    <2> HIDE DEF last
    <2>2. Ahead(part) = {last} /\ Tail(part) = << >>
      BY <2>1, AheadOne
    <2>3. QED
      BY <1>4, <2>2, AheadEmpty DEF TowardsRange, Does, part
  <1>7. CASE ranges = <<union, desired.range>>
    <2> HIDE DEF ranges, part, union
    <2>1. part = <<first, last>>
      BY <1>3, <1>7
    <2> HIDE DEF first, last
    <2>2. Ahead(part) = {first, last} /\ Tail(part) = <<last>>
      BY <2>1, AheadTwo
    <2>3. Ahead(Tail(part)) = {last}
      BY <2>2, AheadOne
    <2>4. QED
      BY <1>4, <2>2, <2>3 DEF TowardsRange, Does, part
  <1>8. QED
    BY <1>2, <1>5, <1>6, <1>7

\* The step that sets name, lease and state (ParamsPart) leads
\* to those of the request.
LEMMA ParamsPartLeads ==
    ASSUME NEW current \in Payload, NEW desired \in Payload
    PROVE  /\ \A step \in Ahead(ParamsPart(current, desired)) :
                Does(step, "SetParams") /\ step.tolerates = {}
           /\ TowardsParams(current, ParamsPart(current, desired), desired)
  <1> DEFINE set == Call("SetParams", desired.params)
  <1>1. Ahead(ParamsPart(current, desired)) =
          IF current.params # desired.params THEN {set} ELSE {}
    BY AheadWhen, AheadOne DEF ParamsPart
  <1>2. set.do.op = "SetParams" /\ set.do.arg = desired.params /\ set.tolerates = {}
    BY DEF Call
  <1> HIDE DEF set
  <1>3. QED
    BY <1>1, <1>2 DEF TowardsParams, Does

\* So do the steps for the DNS servers and the gateway (options_commands),
LEMMA OptionsPartLeads ==
    ASSUME NEW current \in Payload, NEW desired \in Payload, Valid(desired)
    PROVE  /\ \A step \in Ahead(options_commands(current, desired)) :
                /\ step.do.op \in {"SetOptions", "RemoveRouter"}
                /\ step.tolerates \subseteq {"notFound"}
                /\ Does(step, "RemoveRouter") => "notFound" \in step.tolerates
           /\ TowardsOptions(current, options_commands(current, desired), desired)
  <1> DEFINE set == _set_options_command(desired)
             remove == Tolerant("RemoveRouter", None, {"notFound"})
             differ == current.dns # desired.dns \/ current.gateway # desired.gateway
             gone == current.gateway # desired.gateway /\ desired.gateway = None
             part == options_commands(current, desired)
  <1>1. part = When(differ, <<set>> \o When(gone, <<remove>>))
    BY DEF options_commands
  <1>2. /\ set.do = [op |-> "SetOptions",
                     arg |-> [dns |-> desired.dns, gateway |-> desired.gateway]]
        /\ set.tolerates = {}
        /\ remove.do.op = "RemoveRouter" /\ remove.tolerates = {"notFound"}
    BY DEF _set_options_command, Call, Tolerant
  <1>3. Ahead(part) =
          IF differ THEN {set} \cup (IF gone THEN {remove} ELSE {}) ELSE {}
    <2> HIDE DEF set, remove, differ, gone, part
    <2>1. CASE ~differ
      BY <1>1, <2>1, AheadEmpty DEF When
    <2>2. CASE differ /\ ~gone
      <3>1. part = <<set>>
        BY <1>1, <2>2 DEF When
      <3>2. QED
        BY <2>2, <3>1, AheadOne
    <2>3. CASE differ /\ gone
      <3>1. part = <<set>> \o <<remove>>
        BY <1>1, <2>3 DEF When
      <3>2. <<set>> \o <<remove>> = <<set, remove>>
        <4> DEFINE S == {set, remove}
        <4>1. set \in S /\ remove \in S
          OBVIOUS
        <4> HIDE DEF S
        <4>2. QED
          BY <4>1, OneOrTwo
      <3>3. part = <<set, remove>>
        BY <3>1, <3>2
      <3>4. QED
        BY <2>3, <3>3, AheadTwo
    <2>4. QED
      BY <2>1, <2>2, <2>3
  <1> HIDE DEF set, remove, part
  <1>4. QED
    BY <1>2, <1>3 DEF TowardsOptions, Does, part

\* those for network boot,
LEMMA BootPartLeads ==
    ASSUME NEW current \in Payload, NEW desired \in Payload, Valid(desired)
    PROVE  /\ \A step \in Ahead(boot_commands(current, desired)) :
                /\ step.do.op \in {"SetBootHost", "SetBootFile",
                                   "RemoveBootHost", "RemoveBootFile"}
                /\ step.tolerates \subseteq {"notFound"}
                /\ step.do.op \in {"RemoveBootHost", "RemoveBootFile"} =>
                     "notFound" \in step.tolerates
           /\ TowardsBoot(current, boot_commands(current, desired), desired)
  <1> DEFINE host == Call("SetBootHost", desired.next)
             file == Call("SetBootFile", desired.file)
             nohost == Tolerant("RemoveBootHost", None, {"notFound"})
             nofile == Tolerant("RemoveBootFile", None, {"notFound"})
             differ == current.next # desired.next \/ current.file # desired.file
             part == boot_commands(current, desired)
  <1>1. part = IF ~differ THEN << >>
               ELSE IF desired.next # None THEN <<host, file>> ELSE <<nohost, nofile>>
    BY DEF boot_commands, _set_boot_options_commands, _remove_boot_options_commands, When
  <1>2. /\ host.do.op = "SetBootHost" /\ host.do.arg = desired.next /\ host.tolerates = {}
        /\ file.do.op = "SetBootFile" /\ file.do.arg = desired.file /\ file.tolerates = {}
        /\ nohost.do.op = "RemoveBootHost" /\ nohost.tolerates = {"notFound"}
        /\ nofile.do.op = "RemoveBootFile" /\ nofile.tolerates = {"notFound"}
    BY DEF Call, Tolerant
  <1>3. desired.next = None <=> desired.file = None
    BY DEF Valid, pxe_options_set_together
  <1> HIDE DEF host, file, nohost, nofile, part
  <1>4. Ahead(part) = IF ~differ THEN {}
                      ELSE IF desired.next # None THEN {host, file} ELSE {nohost, nofile}
    BY <1>1, AheadEmpty, AheadTwo
  <1>5. QED
    BY <1>2, <1>3, <1>4 DEF TowardsBoot, Does, part

\* and those for the exclusions.
LEMMA ExclusionPartLeads ==
    ASSUME NEW current \in Payload, NEW desired \in Payload
    PROVE  /\ \A step \in Ahead(exclusion_commands(current, desired)) :
                /\ step.do.op \in {"AddExclusions", "RemoveExclusions"}
                /\ step.tolerates = {}
           /\ TowardsExclusions(current, exclusion_commands(current, desired), desired)
  <1> DEFINE gone == current.exclusions \ desired.exclusions
             new == desired.exclusions \ current.exclusions
             remove == Call("RemoveExclusions", gone)
             add == Call("AddExclusions", new)
             part == exclusion_commands(current, desired)
  <1>1. part = When(gone # {}, <<remove>>) \o When(new # {}, <<add>>)
    BY DEF exclusion_commands
  <1>2. /\ remove.do.op = "RemoveExclusions" /\ remove.do.arg = gone /\ remove.tolerates = {}
        /\ add.do.op = "AddExclusions" /\ add.do.arg = new /\ add.tolerates = {}
    BY DEF Call
  <1>3. <<remove>> \in Seq(Step) /\ <<add>> \in Seq(Step)
    BY ExclusionsType DEF Payload, PowerShellErrors
  <1> HIDE DEF remove, add, part
  <1>4. /\ When(gone # {}, <<remove>>) \in Seq(Step)
        /\ When(new # {}, <<add>>) \in Seq(Step)
    BY <1>3, WhenType
  <1>5. /\ Ahead(When(gone # {}, <<remove>>)) = IF gone # {} THEN {remove} ELSE {}
        /\ Ahead(When(new # {}, <<add>>)) = IF new # {} THEN {add} ELSE {}
    BY AheadWhen, AheadOne
  <1>6. Ahead(part) = (IF gone # {} THEN {remove} ELSE {}) \cup
                      (IF new # {} THEN {add} ELSE {})
    BY ZenonT(30), <1>1, <1>4, <1>5, AheadSteps
  <1>7. QED
    BY <1>2, <1>6 DEF TowardsExclusions, Does, part

\* The steps between two failovers write no scope, and a scope taken out of a
\* relationship is followed by a look whether that is left empty.
LEMMA FailoverPartLeads ==
    ASSUME NEW current \in Failover \cup {None}, NEW desired \in Failover \cup {None}
    PROVE  /\ \A step \in Ahead(_handle_failover_diff(current, desired)) :
                /\ step.do.op \in {"SetupFailover", "RemoveFromRelationship",
                                   "CleanupRelationship", "TuneRelationship"}
                /\ step.tolerates = {}
           /\ LooksAfterLeaving(_handle_failover_diff(current, desired))
  <1> DEFINE set == Call("SetupFailover", desired)
             leave == Call("RemoveFromRelationship", current.name)
             look == Call("CleanupRelationship", current.name)
             tune == Call("TuneRelationship", desired)
             part == _handle_failover_diff(current, desired)
             leaving == _remove_scope_from_failover(current.name)
  <1>1. /\ set.do.op = "SetupFailover" /\ set.tolerates = {}
        /\ leave.do.op = "RemoveFromRelationship" /\ leave.tolerates = {}
        /\ look.do.op = "CleanupRelationship" /\ look.tolerates = {}
        /\ tune.do.op = "TuneRelationship" /\ tune.tolerates = {}
    BY DEF Call
  <1>2. \/ part = << >>
        \/ part = <<set>> /\ desired \in Failover
        \/ part = leaving /\ current \in Failover
        \/ part = leaving \o <<set>> /\ current \in Failover /\ desired \in Failover
        \/ part = <<tune>>
    BY DEF _handle_failover_diff, _setup_failover, When
  <1>3. current \in Failover =>
          /\ leaving \in Seq(Step) /\ Ahead(leaving) = {leave, look}
          /\ LooksAfterLeaving(leaving)
    BY FailoverType, LeavingLooks DEF Failover
  <1>4. desired \in Failover => <<set>> \in Seq(Step)
    BY FailoverType DEF _setup_failover
  <1> HIDE DEF set, leave, look, tune, leaving, part
  <1>5. /\ Ahead(<<set>>) = {set} /\ LooksAfterLeaving(<<set>>)
        /\ Ahead(<<tune>>) = {tune} /\ LooksAfterLeaving(<<tune>>)
        /\ Ahead(<< >>) = {} /\ LooksAfterLeaving(<< >>)
    BY <1>1, AheadOne, AheadEmpty, NeverLeaves DEF Does
  <1>6. current \in Failover /\ desired \in Failover =>
          /\ Ahead(leaving \o <<set>>) = {leave, look, set}
          /\ LooksAfterLeaving(leaving \o <<set>>)
    <2> SUFFICES ASSUME current \in Failover, desired \in Failover
                 PROVE  /\ Ahead(leaving \o <<set>>) = {leave, look, set}
                        /\ LooksAfterLeaving(leaving \o <<set>>)
      OBVIOUS
    <2>1. Ahead(leaving \o <<set>>) = {leave, look} \cup {set}
      BY <1>3, <1>4, <1>5, AheadSteps
    <2>2. LooksAfterLeaving(leaving \o <<set>>)
      BY <1>3, <1>4, <1>5, LooksConcat
    <2>3. QED
      BY <2>1, <2>2
  <1>7. Ahead(part) \subseteq {set, leave, look, tune} /\ LooksAfterLeaving(part)
    BY <1>2, <1>3, <1>5, <1>6
  <1>8. QED
    BY <1>1, <1>7 DEF part

\* Making the changes and replicating them leads to the scope asked for.
LEMMA ConvergeLeads ==
    ASSUME NEW current \in Payload, NEW desired \in Payload, Valid(desired),
           current.mask = desired.mask,
           NEW plan, plan = converge_plan(current, desired)
    PROVE  /\ \A step \in Ahead(plan) :
                /\ step.do.op \in WritingOps \ {"AddScope"}
                /\ step.tolerates \subseteq {"alreadyExists", "notFound"}
           /\ Towards(current, plan, desired)
           /\ LooksAfterLeaving(plan)
  <1> DEFINE R == RangePart(current, desired)
             P == ParamsPart(current, desired)
             O == options_commands(current, desired)
             B == boot_commands(current, desired)
             E == exclusion_commands(current, desired)
             F == _handle_failover_diff(current.failover, desired.failover)
             X == When(changes(current, desired) # << >> /\ desired.failover # None,
                       _replicate_failover)
             A == Ahead(R) \cup Ahead(P) \cup Ahead(O) \cup Ahead(B) \cup Ahead(E)
                    \cup Ahead(F) \cup Ahead(X)
  <1>1. /\ R \in Seq(Step) /\ P \in Seq(Step) /\ O \in Seq(Step) /\ B \in Seq(Step)
        /\ E \in Seq(Step) /\ F \in Seq(Step) /\ X \in Seq(Step)
    BY PartsType, FailoverType, WhenType DEF RangePart, ParamsPart
  <1>2. plan = R \o P \o O \o B \o E \o F \o X
    BY DEF converge_plan, changes, RangePart, ParamsPart
  <1>3. /\ \A step \in Ahead(R) : Does(step, "SetRange") /\ step.tolerates = {}
        /\ TowardsRange(current, R, desired)
    BY RangePartLeads
  <1>4. /\ \A step \in Ahead(P) : Does(step, "SetParams") /\ step.tolerates = {}
        /\ TowardsParams(current, P, desired)
    BY ParamsPartLeads
  <1>5. /\ \A step \in Ahead(O) :
             step.do.op \in {"SetOptions", "RemoveRouter"}
               /\ step.tolerates \subseteq {"notFound"}
        /\ TowardsOptions(current, O, desired)
    BY OptionsPartLeads
  <1>6. /\ \A step \in Ahead(B) :
             step.do.op \in {"SetBootHost", "SetBootFile",
                             "RemoveBootHost", "RemoveBootFile"}
               /\ step.tolerates \subseteq {"notFound"}
        /\ TowardsBoot(current, B, desired)
    BY BootPartLeads
  <1>7. /\ \A step \in Ahead(E) :
             step.do.op \in {"AddExclusions", "RemoveExclusions"} /\ step.tolerates = {}
        /\ TowardsExclusions(current, E, desired)
    BY ExclusionPartLeads
  <1>8. /\ \A step \in Ahead(F) :
             step.do.op \in {"SetupFailover", "RemoveFromRelationship",
                             "CleanupRelationship", "TuneRelationship"}
               /\ step.tolerates = {}
        /\ LooksAfterLeaving(F)
    BY FailoverPartLeads DEF Payload
  <1>9. \A step \in Ahead(X) : step.do.op = "Replicate" /\ step.tolerates = {}
    <2> DEFINE copy == Call("Replicate", None)
    <2>1. copy.do.op = "Replicate" /\ copy.tolerates = {}
      BY DEF Call
    <2>2. _replicate_failover = <<copy>>
      BY DEF _replicate_failover
    <2> HIDE DEF copy
    <2>3. Ahead(X) \subseteq {copy}
      BY <2>2, AheadWhen, AheadOne
    <2>4. QED
      BY <2>1, <2>3
  <1> HIDE DEF R, P, O, B, E, F, X
  <1>10. /\ R \o P \in Seq(Step) /\ R \o P \o O \in Seq(Step)
         /\ R \o P \o O \o B \in Seq(Step) /\ R \o P \o O \o B \o E \in Seq(Step)
         /\ R \o P \o O \o B \o E \o F \in Seq(Step) /\ plan \in Seq(Step)
    BY <1>1, <1>2, ConcatType
  <1>11. Ahead(plan) = A
    <2>1. Ahead(R \o P) = Ahead(R) \cup Ahead(P)
      BY <1>1, AheadSteps
    <2>2. Ahead(R \o P \o O) = Ahead(R \o P) \cup Ahead(O)
      BY <1>1, <1>10, AheadSteps
    <2>3. Ahead(R \o P \o O \o B) = Ahead(R \o P \o O) \cup Ahead(B)
      BY <1>1, <1>10, AheadSteps
    <2>4. Ahead(R \o P \o O \o B \o E) = Ahead(R \o P \o O \o B) \cup Ahead(E)
      BY <1>1, <1>10, AheadSteps
    <2>5. Ahead(R \o P \o O \o B \o E \o F) = Ahead(R \o P \o O \o B \o E) \cup Ahead(F)
      BY <1>1, <1>10, AheadSteps
    <2>6. Ahead(plan) = Ahead(R \o P \o O \o B \o E \o F) \cup Ahead(X)
      BY <1>1, <1>2, <1>10, AheadSteps
    <2>7. QED
      BY <2>1, <2>2, <2>3, <2>4, <2>5, <2>6
  <1>12. TowardsRange(current, plan, desired)
    <2>1. TowardsRange(current, R \o P, desired)
      BY <1>1, <1>3, <1>4, TowardsRangeConcat DEF Does
    <2>2. TowardsRange(current, R \o P \o O, desired)
      BY <1>1, <1>5, <1>10, <2>1, TowardsRangeConcat DEF Does
    <2>3. TowardsRange(current, R \o P \o O \o B, desired)
      BY <1>1, <1>6, <1>10, <2>2, TowardsRangeConcat DEF Does
    <2>4. TowardsRange(current, R \o P \o O \o B \o E, desired)
      BY <1>1, <1>7, <1>10, <2>3, TowardsRangeConcat DEF Does
    <2>5. TowardsRange(current, R \o P \o O \o B \o E \o F, desired)
      BY <1>1, <1>8, <1>10, <2>4, TowardsRangeConcat DEF Does
    <2>6. QED
      BY <1>1, <1>2, <1>9, <1>10, <2>5, TowardsRangeConcat DEF Does
  <1>13. TowardsParams(current, plan, desired)
    BY <1>3, <1>4, <1>5, <1>6, <1>7, <1>8, <1>9, <1>11 DEF TowardsParams, Does
  <1>14. TowardsOptions(current, plan, desired)
    BY <1>3, <1>4, <1>5, <1>6, <1>7, <1>8, <1>9, <1>11 DEF TowardsOptions, Does
  <1>15. TowardsBoot(current, plan, desired)
    BY <1>3, <1>4, <1>5, <1>6, <1>7, <1>8, <1>9, <1>11 DEF TowardsBoot, Does
  <1>16. TowardsExclusions(current, plan, desired)
    BY <1>3, <1>4, <1>5, <1>6, <1>7, <1>8, <1>9, <1>11 DEF TowardsExclusions, Does
  <1>17. LooksAfterLeaving(plan)
    <2>1. /\ LooksAfterLeaving(R) /\ LooksAfterLeaving(P) /\ LooksAfterLeaving(O)
          /\ LooksAfterLeaving(B) /\ LooksAfterLeaving(E) /\ LooksAfterLeaving(X)
      BY <1>3, <1>4, <1>5, <1>6, <1>7, <1>9, NeverLeaves DEF Does
    <2>2. QED
      BY <1>1, <1>2, <1>8, <1>10, <2>1, LooksConcat
  <1>18. QED
    BY <1>3, <1>4, <1>5, <1>6, <1>7, <1>8, <1>9, <1>11, <1>12, <1>13, <1>14, <1>15,
       <1>16, <1>17 DEF Towards, WritingOps, Does

\* Creating a scope and setting it up leads to the scope asked for.
LEMMA CreateLeads ==
    ASSUME NEW p \in Payload, Valid(p), NEW plan, plan = create_plan(p)
    PROVE  Writing(None, plan, p) /\ LooksAfterLeaving(plan)
  <1> DEFINE added == [mask |-> p.mask, range |-> p.range, params |-> p.params]
             add == Tolerant("AddScope", added, {"alreadyExists"})
             set == _set_options_command(p)
             host == Call("SetBootHost", p.next)
             file == Call("SetBootFile", p.file)
             exclude == Tolerant("AddExclusions", p.exclusions, {"alreadyExists"})
             join == Call("SetupFailover", p.failover)
             copy == Call("Replicate", None)
             S == <<add, set>>
             B == _set_boot_options_commands(p)
             E == When(p.exclusions # {}, <<exclude>>)
             F == When(p.failover # None, _setup_failover(p.failover) \o _replicate_failover)
             rest == {set} \cup (IF p.next # None THEN {host, file} ELSE {})
                       \cup (IF p.exclusions # {} THEN {exclude} ELSE {})
                       \cup (IF p.failover # None THEN {join, copy} ELSE {})
  <1>1. plan = S \o B \o E \o F
    BY DEF create_plan
  <1>2. /\ add.do.op = "AddScope" /\ add.do.arg = added
        /\ set.do.op = "SetOptions"
        /\ set.do.arg.dns = p.dns /\ set.do.arg.gateway = p.gateway
        /\ host.do.op = "SetBootHost" /\ host.do.arg = p.next
        /\ file.do.op = "SetBootFile" /\ file.do.arg = p.file
        /\ exclude.do.op = "AddExclusions" /\ exclude.do.arg = p.exclusions
        /\ join.do.op = "SetupFailover"
        /\ copy.do.op = "Replicate"
    BY DEF Call, Tolerant, _set_options_command
  <1>3. /\ add.tolerates = {"alreadyExists"} /\ exclude.tolerates = {"alreadyExists"}
        /\ set.tolerates = {} /\ host.tolerates = {} /\ file.tolerates = {}
        /\ join.tolerates = {} /\ copy.tolerates = {}
    BY DEF Call, Tolerant, _set_options_command
  <1>4. add \in Step /\ set \in Step
    <2>1. [op |-> "AddScope", arg |-> added] \in Cmdlet
      BY DEF Payload, Cmdlet
    <2>2. [op |-> "SetOptions", arg |-> [dns |-> p.dns, gateway |-> p.gateway]] \in Cmdlet
      BY DEF Payload, Cmdlet
    <2>3. QED
      BY <2>1, <2>2, CallType, TolerantType, ToleratedKinds DEF _set_options_command
  <1>5. B \in Seq(Step) /\ Ahead(B) = IF p.next # None THEN {host, file} ELSE {}
    <2>1. B = When(p.next # None, <<host, file>>)
      BY DEF _set_boot_options_commands
    <2> HIDE DEF host, file, B
    <2>2. QED
      BY <2>1, OptionsType, AheadWhen, AheadTwo DEF B
  <1>6. E \in Seq(Step) /\ Ahead(E) = IF p.exclusions # {} THEN {exclude} ELSE {}
    <2>1. <<exclude>> \in Seq(Step)
      BY ExclusionsType, ToleratedKinds DEF Payload
    <2> HIDE DEF exclude
    <2>2. QED
      BY <2>1, WhenType, AheadWhen, AheadOne
  <1>7. F \in Seq(Step) /\ Ahead(F) = IF p.failover # None THEN {join, copy} ELSE {}
    <2>1. CASE p.failover = None
      BY <2>1, AheadEmpty DEF When
    <2>2. CASE p.failover # None
      <3>1. <<join>> \in Seq(Step) /\ <<copy>> \in Seq(Step)
        BY <2>2, FailoverType DEF Payload, _setup_failover, _replicate_failover
      <3>2. F = <<join>> \o <<copy>>
        BY <2>2 DEF When, _setup_failover, _replicate_failover
      <3> HIDE DEF join, copy, F
      <3>3. Ahead(F) = {join} \cup {copy} /\ F \in Seq(Step)
        BY <3>1, <3>2, AheadSteps, AheadOne
      <3>4. QED
        BY <2>2, <3>3
    <2>3. QED
      BY <2>1, <2>2
  <1> HIDE DEF add, set, host, file, exclude, join, copy, B, E, F
  <1>8. /\ S \in Seq(Step) /\ S # << >> /\ Head(S) = add /\ Tail(S) = <<set>>
        /\ Ahead(S) = {add, set} /\ Ahead(<<set>>) = {set}
    BY <1>4, AheadOne, AheadTwo
  <1> HIDE DEF S
  <1>9. /\ S \o B \in Seq(Step) /\ S \o B \o E \in Seq(Step) /\ plan \in Seq(Step)
        /\ Ahead(plan) = {add, set} \cup Ahead(B) \cup Ahead(E) \cup Ahead(F)
    <2>1. S \o B \in Seq(Step) /\ Ahead(S \o B) = {add, set} \cup Ahead(B)
      BY <1>5, <1>8, AheadSteps
    <2>2. S \o B \o E \in Seq(Step) /\ Ahead(S \o B \o E) = Ahead(S \o B) \cup Ahead(E)
      BY <1>6, <2>1, AheadSteps
    <2>3. plan \in Seq(Step) /\ Ahead(plan) = Ahead(S \o B \o E) \cup Ahead(F)
      BY ZenonT(30), <1>1, <1>7, <2>2, AheadSteps
    <2>4. QED
      BY <2>1, <2>2, <2>3
  <1>10. /\ plan # << >> /\ Head(plan) = add
         /\ Ahead(Tail(plan)) = {set} \cup Ahead(B) \cup Ahead(E) \cup Ahead(F)
    <2>1. /\ S \o B # << >> /\ Head(S \o B) = add
          /\ Ahead(Tail(S \o B)) = {set} \cup Ahead(B)
      <3>1. Ahead(Tail(S)) = {set}
        BY <1>8
      <3>2. /\ S \o B # << >> /\ Head(S \o B) = Head(S)
            /\ Ahead(Tail(S \o B)) = Ahead(Tail(S)) \cup Ahead(B)
        BY <1>5, <1>8, AheadOfTail
      <3>3. QED
        BY <1>8, <3>1, <3>2
    <2>2. /\ S \o B \o E # << >> /\ Head(S \o B \o E) = add
          /\ Ahead(Tail(S \o B \o E)) = Ahead(Tail(S \o B)) \cup Ahead(E)
      BY <1>6, <1>9, <2>1, AheadOfTail
    <2>3. /\ plan # << >> /\ Head(plan) = add
          /\ Ahead(Tail(plan)) = Ahead(Tail(S \o B \o E)) \cup Ahead(F)
      BY ZenonT(30), <1>1, <1>7, <1>9, <2>2, AheadOfTail
    <2>4. QED
      BY <2>1, <2>2, <2>3
  <1>11. Ahead(plan) = {add} \cup rest /\ Ahead(Tail(plan)) = rest
    BY <1>5, <1>6, <1>7, <1>9, <1>10
  <1>12. StartsAnew(plan) /\ Base(None, plan) = Fresh(added)
    BY <1>2, <1>10 DEF StartsAnew, Base, Does
  <1>13. Towards(Fresh(added), plan, p)
    <2> DEFINE base == Fresh(added)
    <2>1. /\ base.mask = p.mask /\ base.range = p.range /\ base.params = p.params
          /\ base.dns = None /\ base.gateway = None /\ base.next = None
          /\ base.file = None /\ base.exclusions = {}
      BY DEF Fresh
    <2> HIDE DEF base
    <2>2. TowardsRange(base, plan, p) /\ TowardsParams(base, plan, p)
      BY <1>2, <1>11, <2>1 DEF TowardsRange, TowardsParams, Does
    <2>3. TowardsOptions(base, plan, p)
      BY <1>2, <1>11, <2>1 DEF TowardsOptions, Does
    <2>4. p.next = None <=> p.file = None
      BY DEF Valid, pxe_options_set_together
    <2>5. TowardsBoot(base, plan, p)
      BY <1>2, <1>11, <2>1, <2>4 DEF TowardsBoot, Does
    <2>6. TowardsExclusions(base, plan, p)
      BY <1>2, <1>11, <2>1 DEF TowardsExclusions, Does
    <2>7. QED
      BY <2>1, <2>2, <2>3, <2>5, <2>6 DEF Towards, base
  <1>14. /\ \A step \in Ahead(plan) :
              /\ step.do.op \in WritingOps \ {"RemoveFromRelationship"}
              /\ step.tolerates \subseteq {"alreadyExists", "notFound"}
         /\ \A step \in Ahead(Tail(plan)) : ~Does(step, "AddScope")
    BY <1>2, <1>3, <1>11 DEF WritingOps, Does
  <1>15. LooksAfterLeaving(plan)
    BY <1>14, NeverLeaves DEF Does
  <1>16. QED
    BY <1>10, <1>12, <1>13, <1>14, <1>15 DEF Writing

\* Leaving the relationship and removing the scope leads to its being gone.
LEMMA DeleteLeads ==
    ASSUME NEW current \in Payload, NEW plan, plan = delete_plan(current)
    PROVE  /\ \A step \in Ahead(plan) :
                /\ step.do.op \in DeletingOps
                /\ step.do.op # "RemoveExclusions" => step.tolerates = {}
           /\ \E step \in Ahead(plan) : Does(step, "RemoveScope")
           /\ current.failover # None =>
                /\ plan # << >> /\ Does(Head(plan), "RemoveFromRelationship")
                /\ Head(plan).do.arg = current.failover.name
           /\ LooksAfterLeaving(plan)
  <1> DEFINE n == current.failover.name
             leave == Call("RemoveFromRelationship", n)
             look == Call("CleanupRelationship", n)
             include == Tolerant("RemoveExclusions", current.exclusions, PowerShellErrors)
             drop == Call("RemoveScope", None)
             leaving == _remove_scope_from_failover(n)
             L == When(current.failover # None, leaving)
             E == When(current.exclusions # {}, <<include>>)
             D == <<drop>>
  <1>1. plan = L \o E \o D
    BY DEF delete_plan
  <1>2. /\ leave.do.op = "RemoveFromRelationship" /\ leave.do.arg = n
        /\ leave.tolerates = {}
        /\ look.do.op = "CleanupRelationship" /\ look.tolerates = {}
        /\ include.do.op = "RemoveExclusions"
        /\ drop.do.op = "RemoveScope" /\ drop.tolerates = {}
    BY DEF Call, Tolerant
  <1>3. current.failover # None =>
          /\ leaving \in Seq(Step) /\ Ahead(leaving) = {leave, look}
          /\ LooksAfterLeaving(leaving) /\ leaving # << >> /\ Head(leaving) = leave
    BY FailoverType, LeavingLooks DEF Payload, Failover
  <1>4. <<include>> \in Seq(Step)
    BY ExclusionsType, ToleratedKinds DEF Payload
  <1>5. D \in Seq(Step)
    <2>1. [op |-> "RemoveScope", arg |-> None] \in Cmdlet
      BY DEF Cmdlet
    <2>2. QED
      BY <2>1, CallType
  <1> HIDE DEF leave, look, include, drop, leaving
  <1>6. /\ L \in Seq(Step) /\ E \in Seq(Step)
        /\ Ahead(L) = IF current.failover # None THEN {leave, look} ELSE {}
        /\ Ahead(E) = IF current.exclusions # {} THEN {include} ELSE {}
        /\ Ahead(D) = {drop}
    BY <1>3, <1>4, WhenType, AheadWhen, AheadOne
  <1>7. LooksAfterLeaving(L) /\ LooksAfterLeaving(E) /\ LooksAfterLeaving(D)
    <2>1. current.failover = None => L = << >>
      BY DEF When
    <2>2. current.failover # None => L = leaving
      BY DEF When
    <2>3. LooksAfterLeaving(L)
      BY <1>3, <2>1, <2>2, AheadEmpty, NeverLeaves
    <2>4. QED
      BY <1>2, <1>6, <2>3, NeverLeaves DEF Does
  <1>8. current.failover # None => L # << >> /\ Head(L) = leave
    BY <1>3 DEF When
  <1> HIDE DEF L, E, D
  <1>9. /\ L \o E \in Seq(Step) /\ plan \in Seq(Step)
        /\ Ahead(plan) = Ahead(L) \cup Ahead(E) \cup Ahead(D)
    <2>1. L \o E \in Seq(Step) /\ Ahead(L \o E) = Ahead(L) \cup Ahead(E)
      BY <1>6, AheadSteps
    <2>2. plan \in Seq(Step) /\ Ahead(plan) = Ahead(L \o E) \cup Ahead(D)
      BY <1>1, <1>5, <2>1, AheadSteps
    <2>3. QED
      BY <2>1, <2>2
  <1>10. current.failover # None => plan # << >> /\ Head(plan) = leave
    <2> SUFFICES ASSUME current.failover # None PROVE plan # << >> /\ Head(plan) = leave
      OBVIOUS
    <2>1. L \o E # << >> /\ Head(L \o E) = leave
      BY <1>6, <1>8, AheadOfTail
    <2>2. QED
      BY <1>1, <1>5, <1>9, <2>1, AheadOfTail
  <1>11. LooksAfterLeaving(plan)
    BY <1>1, <1>5, <1>6, <1>7, <1>9, LooksConcat
  <1>12. QED
    BY <1>2, <1>6, <1>9, <1>10, <1>11 DEF DeletingOps, Does

-----------------------------------------------------------------------------
(* Taking a step *)

\* Running the cmdlet c, or the lookup c, takes the first step of `steps`, or a
\* part of it if it is a batch, and leaves `rest`.
Advance(steps, c, rest) ==
    LET next == Head(steps)
        Turns == rest # << >> /\ Tail(rest) = Tail(steps)
    IN  \/ /\ next.do.op \notin BatchOps \cup LookupOps
           /\ c = next.do /\ rest = Tail(steps)
        \/ /\ next.do.op \in BatchOps
           /\ \E x \in next.do.arg :
                /\ c = [op |-> Single[next.do.op], arg |-> x]
                /\ \/ next.do.arg = {x} /\ rest = Tail(steps)
                   \/ /\ Turns
                      /\ Head(rest).do = [op |-> next.do.op, arg |-> next.do.arg \ {x}]
                      /\ Head(rest).tolerates = next.tolerates
        \/ /\ next.do.op \in LookupOps
           /\ c = next.do /\ rest = Tail(steps)
        \/ /\ next.do.op = "SetupFailover"
           /\ c = next.do /\ Turns
           /\ \/ Head(rest).do = [op |-> "AddToRelationship", arg |-> next.do.arg.name]
              \/ Head(rest).do = [op |-> "CreateRelationship", arg |-> next.do.arg]
           /\ Head(rest).tolerates \subseteq {"alreadyExists"}
        \/ /\ next.do.op = "CleanupRelationship"
           /\ c = next.do /\ Turns
           /\ Head(rest).do = [op |-> "RemoveRelationship", arg |-> next.do.arg]
           /\ Head(rest).tolerates = {}

\* A step put before others.
LEMMA ConsParts ==
    ASSUME NEW step \in Step, NEW steps \in Seq(Step)
    PROVE  /\ <<step>> \o steps \in Seq(Step) /\ <<step>> \o steps # << >>
           /\ Head(<<step>> \o steps) = step
           /\ Tail(<<step>> \o steps) = steps
           /\ << >> \o steps = steps
  OBVIOUS

\* Issuing a cmdlet takes a step.
LEMMA IssuableAdvances ==
    ASSUME NEW steps \in Seq(Step), steps # << >>, NEW c \in Issuable(steps)
    PROVE  Advance(steps, c.cmdlet, c.rest)
  <1> DEFINE next == Head(steps)
  <1>1. next \in Step /\ Tail(steps) \in Seq(Step)
    OBVIOUS
  <1>2. CASE next.do.op \in BatchOps
    <2>1. next.do \in Batches
      BY <1>1, <1>2 DEF Step, BatchOps, Cmdlet, Lookups
    <2>2. PICK x \in next.do.arg :
            c = [cmdlet |-> [op |-> Single[next.do.op], arg |-> x],
                 rest |-> When(next.do.arg # {x}, <<[next EXCEPT !.do.arg = @ \ {x}]>>)
                            \o Tail(steps)]
      BY <1>2 DEF Issuable
    <2> DEFINE left == [next EXCEPT !.do.arg = @ \ {x}]
    <2>3. /\ left.do = [op |-> next.do.op, arg |-> next.do.arg \ {x}]
          /\ left.tolerates = next.tolerates
          /\ left \in Step
      <3>1. [next.do EXCEPT !.arg = next.do.arg \ {x}] =
              [op |-> next.do.op, arg |-> next.do.arg \ {x}]
        <4>1. ASSUME NEW batch \in Batches, NEW left_over
              PROVE  [batch EXCEPT !.arg = left_over] =
                       [op |-> batch.op, arg |-> left_over]
          BY DEF Batches
        <4>2. QED
          BY <2>1, <4>1
      <3>2. [op |-> next.do.op, arg |-> next.do.arg \ {x}] \in Batches
        BY <2>1 DEF Batches
      <3>3. left = [next EXCEPT !.do = [op |-> next.do.op, arg |-> next.do.arg \ {x}]]
        BY <3>1
      <3> HIDE DEF left
      <3>4. QED
        BY <1>1, <3>2, <3>3 DEF Step
    <2>4. /\ c.cmdlet = [op |-> Single[next.do.op], arg |-> x]
          /\ c.rest = When(next.do.arg # {x}, <<left>>) \o Tail(steps)
      BY <2>2
    <2> HIDE DEF left
    <2>5. CASE next.do.arg = {x}
      <3>1. c.rest = Tail(steps)
        BY <1>1, <2>4, <2>5 DEF When
      <3>2. QED
        BY <1>2, <2>4, <2>5, <3>1 DEF Advance
    <2>6. CASE next.do.arg # {x}
      <3>1. c.rest = <<left>> \o Tail(steps)
        BY <2>4, <2>6 DEF When
      <3>2. c.rest # << >> /\ Head(c.rest) = left /\ Tail(c.rest) = Tail(steps)
        BY <1>1, <2>3, <3>1, ConsParts
      <3>3. QED
        BY <1>2, <2>3, <2>4, <3>2 DEF Advance
    <2>7. QED
      BY <2>5, <2>6
  <1>3. CASE next.do.op \in LookupOps
    BY <1>3 DEF Issuable, LookupOps, BatchOps
  <1>4. CASE next.do.op \notin BatchOps \cup LookupOps
    <2>1. c = [cmdlet |-> next.do, rest |-> Tail(steps)]
      BY <1>4 DEF Issuable
    <2>2. QED
      BY <1>4, <2>1 DEF Advance
  <1>5. QED
    BY <1>2, <1>3, <1>4

\* The steps ahead before and after.
LEMMA AdvanceAhead ==
    ASSUME NEW steps \in Seq(Step), NEW rest \in Seq(Step), NEW c, steps # << >>,
           Advance(steps, c, rest)
    PROVE  /\ Ahead(steps) = {Head(steps)} \cup Ahead(Tail(steps))
           /\ rest # << >> => Ahead(Tail(rest)) \subseteq Ahead(Tail(steps))
           /\ \/ rest = Tail(steps)
              \/ rest # << >> /\ Ahead(rest) = {Head(rest)} \cup Ahead(Tail(steps))
  <1>1. Ahead(steps) = {Head(steps)} \cup Ahead(Tail(steps))
    BY AheadHead
  <1>2. rest # << >> => Ahead(rest) = {Head(rest)} \cup Ahead(Tail(rest))
    BY AheadHead
  <1>3. rest = Tail(steps) \/ (rest # << >> /\ Tail(rest) = Tail(steps))
    BY DEF Advance
  <1>4. QED
    BY <1>1, <1>2, <1>3

\* Each field after a write.
LEMMA AppliedFields ==
    ASSUME NEW base \in ScopeConfig, NEW c
    PROVE  /\ Applied(base, c).mask = base.mask
           /\ Applied(base, c).range = IF c.op = "SetRange" THEN c.arg ELSE base.range
           /\ Applied(base, c).params = IF c.op = "SetParams" THEN c.arg ELSE base.params
           /\ Applied(base, c).dns = IF c.op = "SetOptions" THEN c.arg.dns ELSE base.dns
           /\ Applied(base, c).gateway =
                CASE c.op = "SetOptions" /\ c.arg.gateway # None -> c.arg.gateway
                  [] c.op = "RemoveRouter" -> None
                  [] OTHER -> base.gateway
           /\ Applied(base, c).next =
                CASE c.op = "SetBootHost" -> c.arg
                  [] c.op = "RemoveBootHost" -> None
                  [] OTHER -> base.next
           /\ Applied(base, c).file =
                CASE c.op = "SetBootFile" -> c.arg
                  [] c.op = "RemoveBootFile" -> None
                  [] OTHER -> base.file
           /\ Applied(base, c).exclusions =
                CASE c.op = "AddExclusion" -> base.exclusions \cup {c.arg}
                  [] c.op = "RemoveExclusion" -> base.exclusions \ {c.arg}
                  [] OTHER -> base.exclusions
  <1>1. CASE c.op \in {"SetRange", "SetParams", "SetBootHost", "SetBootFile"}
    BY <1>1 DEF Applied, ScopeConfig
  <1>2. CASE c.op \in {"RemoveRouter", "RemoveBootHost", "RemoveBootFile"}
    BY <1>2 DEF Applied, ScopeConfig
  <1>3. CASE c.op \in {"AddExclusion", "RemoveExclusion"}
    BY <1>3 DEF Applied, ScopeConfig
  <1>4. CASE c.op = "SetOptions"
    BY <1>4 DEF Applied, ScopeConfig
  <1>5. CASE c.op \notin ConfigOps
    BY <1>5 DEF Applied, ConfigOps
  <1>6. QED
    BY <1>1, <1>2, <1>3, <1>4, <1>5 DEF ConfigOps

\* What the cmdlet and a new first step are, by the step taken.
LEMMA AdvanceKinds ==
    ASSUME NEW steps, NEW rest, NEW c, Advance(steps, c, rest)
    PROVE  /\ Head(steps).do.op \notin BatchOps => c = Head(steps).do
           /\ Head(steps).do.op \in BatchOps =>
                /\ c.arg \in Head(steps).do.arg
                /\ Head(steps).do.op = "AddExclusions" => c.op = "AddExclusion"
                /\ Head(steps).do.op = "RemoveExclusions" => c.op = "RemoveExclusion"
                /\ \/ Head(steps).do.arg = {c.arg} /\ rest = Tail(steps)
                   \/ /\ rest # << >> /\ Tail(rest) = Tail(steps)
                      /\ Head(rest).do.op = Head(steps).do.op
                      /\ Head(rest).do.arg = Head(steps).do.arg \ {c.arg}
                      /\ Head(rest).tolerates = Head(steps).tolerates
           /\ Head(steps).do.op \notin BatchOps \cup LookupOps => rest = Tail(steps)
           /\ Head(steps).do.op \in LookupOps => rest = Tail(steps) \/
                /\ rest # << >> /\ Tail(rest) = Tail(steps)
                /\ Head(rest).do.op \in
                     {"AddToRelationship", "CreateRelationship", "RemoveRelationship"}
                /\ Head(rest).tolerates \subseteq {"alreadyExists"}
  <1> DEFINE next == Head(steps)
  <1>1. CASE next.do.op \in BatchOps
    <2>1. PICK x \in next.do.arg :
            /\ c = [op |-> Single[next.do.op], arg |-> x]
            /\ \/ next.do.arg = {x} /\ rest = Tail(steps)
               \/ /\ rest # << >> /\ Tail(rest) = Tail(steps)
                  /\ Head(rest).do = [op |-> next.do.op, arg |-> next.do.arg \ {x}]
                  /\ Head(rest).tolerates = next.tolerates
      BY <1>1 DEF Advance, BatchOps, LookupOps
    <2>2. c.arg = x /\ c.op = Single[next.do.op]
      BY <2>1
    <2>3. /\ next.do.op = "AddExclusions" => c.op = "AddExclusion"
          /\ next.do.op = "RemoveExclusions" => c.op = "RemoveExclusion"
      BY <2>2 DEF Single
    <2>4. QED
      BY <1>1, <2>1, <2>2, <2>3 DEF BatchOps, LookupOps
  <1>2. CASE next.do.op \in LookupOps
    <2>1. c = next.do
      BY <1>2 DEF Advance, BatchOps, LookupOps
    <2>2. rest = Tail(steps) \/
            /\ rest # << >> /\ Tail(rest) = Tail(steps)
            /\ Head(rest).do.op \in
                 {"AddToRelationship", "CreateRelationship", "RemoveRelationship"}
            /\ Head(rest).tolerates \subseteq {"alreadyExists"}
      BY <1>2 DEF Advance, BatchOps, LookupOps
    <2>3. QED
      BY <1>2, <2>1, <2>2 DEF BatchOps, LookupOps
  <1>3. CASE next.do.op \notin BatchOps \cup LookupOps
    BY <1>3 DEF Advance, BatchOps, LookupOps
  <1>4. QED
    BY <1>1, <1>2, <1>3

\* A step taken keeps the range of the request ahead or reached;
LEMMA RangeStaysAhead ==
    ASSUME NEW base \in ScopeConfig, NEW steps \in Seq(Step), NEW rest \in Seq(Step),
           NEW c, NEW desired, steps # << >>, Advance(steps, c, rest),
           Head(steps).do.op \in WritingOps, TowardsRange(base, steps, desired)
    PROVE  TowardsRange(Applied(base, c), rest, desired)
  <1> DEFINE new == Applied(base, c)
             T == Ahead(Tail(steps))
             next == Head(steps)
  <1>1. /\ Ahead(steps) = {next} \cup T
        /\ rest # << >> => Ahead(Tail(rest)) \subseteq T
        /\ rest = Tail(steps) \/ Ahead(rest) = {Head(rest)} \cup T
    BY AdvanceAhead
  <1>2. new.range = IF c.op = "SetRange" THEN c.arg ELSE base.range
    BY AppliedFields
  <1> HIDE DEF new, T, next
  <1>3. CASE Does(next, "SetRange")
    <2>1. c = next.do /\ rest = Tail(steps)
      BY <1>3, AdvanceKinds DEF Does, next, BatchOps, LookupOps
    <2>2. Ahead(rest) = T
      BY <2>1 DEF T
    <2>3. QED
      BY <1>1, <1>2, <1>3, <2>1, <2>2 DEF TowardsRange, Does, T, new
  <1>4. CASE ~Does(next, "SetRange")
    <2>1. c.op # "SetRange"
      BY <1>4, AdvanceKinds DEF Does, next, BatchOps
    <2>2. rest = Tail(steps) \/ ~Does(Head(rest), "SetRange")
      BY AdvanceKinds DEF Does, BatchOps
    <2>3. \A step \in Ahead(rest) : Does(step, "SetRange") => step \in T
      BY <1>1, <2>2 DEF T
    <2>4. T \subseteq Ahead(rest)
      BY <1>1 DEF T
    <2>5. QED
      BY <1>1, <1>2, <1>4, <2>1, <2>3, <2>4 DEF TowardsRange, T, new
  <1>5. QED
    BY <1>3, <1>4

\* so it does its parameters, its options and network boot,
LEMMA OptionsStayAhead ==
    ASSUME NEW base \in ScopeConfig, NEW steps \in Seq(Step), NEW rest \in Seq(Step),
           NEW c, NEW desired, steps # << >>, Advance(steps, c, rest),
           Head(steps).do.op \in WritingOps,
           TowardsParams(base, steps, desired), TowardsOptions(base, steps, desired),
           TowardsBoot(base, steps, desired)
    PROVE  /\ TowardsParams(Applied(base, c), rest, desired)
           /\ TowardsOptions(Applied(base, c), rest, desired)
           /\ TowardsBoot(Applied(base, c), rest, desired)
  <1> DEFINE new == Applied(base, c)
             T == Ahead(Tail(steps))
             next == Head(steps)
             Ops == {"SetParams", "SetOptions", "RemoveRouter", "SetBootHost",
                     "SetBootFile", "RemoveBootHost", "RemoveBootFile"}
  <1>1. /\ Ahead(steps) = {next} \cup T
        /\ rest = Tail(steps) \/ Ahead(rest) = {Head(rest)} \cup T
    BY AdvanceAhead
  <1>2. /\ new.params = IF c.op = "SetParams" THEN c.arg ELSE base.params
        /\ new.dns = IF c.op = "SetOptions" THEN c.arg.dns ELSE base.dns
        /\ new.gateway = CASE c.op = "SetOptions" /\ c.arg.gateway # None -> c.arg.gateway
                           [] c.op = "RemoveRouter" -> None
                           [] OTHER -> base.gateway
        /\ new.next = CASE c.op = "SetBootHost" -> c.arg
                        [] c.op = "RemoveBootHost" -> None
                        [] OTHER -> base.next
        /\ new.file = CASE c.op = "SetBootFile" -> c.arg
                        [] c.op = "RemoveBootFile" -> None
                        [] OTHER -> base.file
    BY AppliedFields
  <1> HIDE DEF new, T, next
  <1>3. /\ next.do.op \in Ops <=> c.op \in Ops
        /\ c.op \in Ops => c = next.do
    <2>1. next.do.op \notin BatchOps => c = next.do
      BY AdvanceKinds DEF next
    <2>2. next.do.op \in BatchOps => c.op \in {"AddExclusion", "RemoveExclusion"}
      BY AdvanceKinds DEF next, BatchOps
    <2>3. QED
      BY <2>1, <2>2 DEF BatchOps
  <1>4. \A step \in Ahead(rest) : step.do.op \in Ops => step \in T
    <2>1. CASE rest = Tail(steps)
      BY <2>1 DEF T
    <2>2. CASE rest # Tail(steps)
      <3>1. Head(rest).do.op \in BatchOps \cup
              {"AddToRelationship", "CreateRelationship", "RemoveRelationship"}
        BY <2>2, AdvanceKinds
      <3>2. Head(rest).do.op \notin Ops
        BY <3>1 DEF BatchOps
      <3>3. QED
        BY <1>1, <2>2, <3>2
    <2>3. QED
      BY <2>1, <2>2
  <1>5. T \subseteq Ahead(rest)
    BY <1>1 DEF T
  <1> HIDE DEF Ops
  <1>6. TowardsParams(new, rest, desired)
    BY <1>1, <1>2, <1>3, <1>4, <1>5 DEF TowardsParams, Does, Ops
  <1>7. TowardsOptions(new, rest, desired)
    BY <1>1, <1>2, <1>3, <1>4, <1>5 DEF TowardsOptions, Does, Ops
  <1>8. TowardsBoot(new, rest, desired)
    BY <1>1, <1>2, <1>3, <1>4, <1>5 DEF TowardsBoot, Does, Ops
  <1>9. QED
    BY <1>6, <1>7, <1>8 DEF new

\* and its exclusions.
LEMMA ExclusionsStayAhead ==
    ASSUME NEW base \in ScopeConfig, NEW steps \in Seq(Step), NEW rest \in Seq(Step),
           NEW c, NEW desired, steps # << >>, Advance(steps, c, rest),
           Head(steps).do.op \in WritingOps, TowardsExclusions(base, steps, desired)
    PROVE  TowardsExclusions(Applied(base, c), rest, desired)
  <1> DEFINE new == Applied(base, c)
             T == Ahead(Tail(steps))
             next == Head(steps)
  <1>1. /\ Ahead(steps) = {next} \cup T
        /\ rest = Tail(steps) \/ Ahead(rest) = {Head(rest)} \cup T
    BY AdvanceAhead
  <1>2. new.exclusions = CASE c.op = "AddExclusion" -> base.exclusions \cup {c.arg}
                           [] c.op = "RemoveExclusion" -> base.exclusions \ {c.arg}
                           [] OTHER -> base.exclusions
    BY AppliedFields
  <1> HIDE DEF new, T, next
  <1>3. CASE next.do.op \notin BatchOps
    <2>1. c.op \notin {"AddExclusion", "RemoveExclusion"}
      <3>1. c = next.do /\ next.do.op \in WritingOps
        BY <1>3, AdvanceKinds DEF next
      <3>2. QED
        BY <3>1 DEF WritingOps
    <2>2. rest = Tail(steps) \/ Head(rest).do.op \notin BatchOps
      BY <1>3, AdvanceKinds DEF next, BatchOps
    <2>3. \A step \in Ahead(rest) : step.do.op \in BatchOps => step \in T
      BY <1>1, <2>2 DEF T
    <2>4. T \subseteq Ahead(rest)
      BY <1>1 DEF T
    <2>5. QED
      BY <1>1, <1>2, <1>3, <2>1, <2>3, <2>4
         DEF TowardsExclusions, Does, BatchOps, new
  <1>4. CASE next.do.op \in BatchOps
    <2>1. /\ c.arg \in next.do.arg
          /\ next.do.op = "AddExclusions" => c.op = "AddExclusion"
          /\ next.do.op = "RemoveExclusions" => c.op = "RemoveExclusion"
      BY <1>4, AdvanceKinds DEF next
    <2>2. \/ next.do.arg = {c.arg} /\ Ahead(rest) = T
          \/ /\ Ahead(rest) = {Head(rest)} \cup T
             /\ Head(rest).do.op = next.do.op
             /\ Head(rest).do.arg = next.do.arg \ {c.arg}
      <3>1. next.do.op \in BatchOps =>
              \/ next.do.arg = {c.arg} /\ rest = Tail(steps)
              \/ /\ rest # << >> /\ Tail(rest) = Tail(steps)
                 /\ Head(rest).do.op = next.do.op
                 /\ Head(rest).do.arg = next.do.arg \ {c.arg}
                 /\ Head(rest).tolerates = next.tolerates
        BY AdvanceKinds, Zenon DEF next
      <3>2. rest # << >> => Ahead(rest) = {Head(rest)} \cup Ahead(Tail(rest))
        BY AheadHead
      <3>3. QED
        BY <1>4, <3>1, <3>2 DEF T
    <2>3. CASE next.do.op = "AddExclusions"
      <3>1. new.exclusions = base.exclusions \cup {c.arg} /\ c.arg \in desired.exclusions
        BY <1>1, <1>2, <2>1, <2>3 DEF TowardsExclusions, Does
      <3>2. QED
        BY <1>1, <2>1, <2>2, <2>3, <3>1 DEF TowardsExclusions, Does, new
    <2>4. CASE next.do.op = "RemoveExclusions"
      <3>1. new.exclusions = base.exclusions \ {c.arg} /\ c.arg \notin desired.exclusions
        BY <1>1, <1>2, <2>1, <2>4 DEF TowardsExclusions, Does
      <3>2. QED
        BY <1>1, <2>1, <2>2, <2>4, <3>1 DEF TowardsExclusions, Does, new
    <2>5. QED
      BY <1>4, <2>3, <2>4 DEF BatchOps
  <1>5. QED
    BY <1>3, <1>4

\* A new scope has a configuration.
LEMMA FreshType ==
    ASSUME NEW c \in Cmdlet, c.op = "AddScope"
    PROVE  Fresh(c.arg) \in ScopeConfig
  BY ConfigArgs DEF Fresh, ScopeConfig

\* A write stays on its way.
LEMMA WritingAdvances ==
    ASSUME NEW held \in ScopeConfig \cup {None}, NEW steps \in Seq(Step),
           NEW rest \in Seq(Step), NEW c, NEW desired, NEW new, steps # << >>,
           Writing(held, steps, desired), Advance(steps, c, rest),
           c \in Cmdlet \/ c.op \in LookupOps,
           c.op = "AddScope" => new = Fresh(c.arg),
           c.op # "AddScope" => new = Applied(held, c)
    PROVE  Writing(new, rest, desired) /\ new # None
  <1> DEFINE next == Head(steps)
             T == Ahead(Tail(steps))
             base == Base(held, steps)
  <1>1. /\ next.do.op \in WritingOps
        /\ next.tolerates \subseteq {"alreadyExists", "notFound"}
        /\ \A step \in T :
              /\ step.do.op \in WritingOps
              /\ step.tolerates \subseteq {"alreadyExists", "notFound"}
              /\ ~Does(step, "AddScope")
    BY AheadHead DEF Writing
  <1>2. base \in ScopeConfig /\ new = Applied(base, c)
    <2>1. CASE StartsAnew(steps)
      <3>1. next.do.op = "AddScope"
        BY <2>1 DEF StartsAnew, Does
      <3>2. c = next.do
        BY <1>1, <3>1, AdvanceKinds DEF BatchOps
      <3>3. base = Fresh(c.arg) /\ new = base /\ Applied(base, c) = base
        BY <2>1, <3>1, <3>2 DEF Base, Applied
      <3>4. c \in Cmdlet
        BY <3>1, <3>2 DEF LookupOps
      <3>5. base \in ScopeConfig
        BY <3>1, <3>2, <3>3, <3>4, FreshType
      <3>6. QED
        BY <3>3, <3>5
    <2>2. CASE ~StartsAnew(steps)
      <3>1. next.do.op # "AddScope"
        BY <2>2 DEF StartsAnew, Does
      <3>2. next.do.op \notin BatchOps => c = next.do
        BY <1>1, AdvanceKinds
      <3>3. next.do.op \in BatchOps => c.op \in {"AddExclusion", "RemoveExclusion"}
        BY <1>1, AdvanceKinds DEF BatchOps
      <3>4. c.op # "AddScope"
        BY <3>1, <3>2, <3>3
      <3>5. base = held /\ held \in ScopeConfig
        BY <2>2 DEF Base, Writing
      <3>6. QED
        BY <3>4, <3>5
    <2>3. QED
      BY <2>1, <2>2
  <1>3. new \in ScopeConfig
    <2>1. c.op \in LookupOps => Applied(base, c) = base
      BY DEF LookupOps, Applied
    <2>2. QED
      BY <1>2, <2>1, AppliedType
  <1>4. Towards(new, rest, desired)
    <2>1. Towards(base, steps, desired)
      BY DEF Writing
    <2>2. new.mask = desired.mask
      BY <1>2, <2>1, AppliedFields DEF Towards
    <2>3. TowardsRange(new, rest, desired)
      BY <1>1, <1>2, <2>1, RangeStaysAhead DEF Towards
    <2>4. /\ TowardsParams(new, rest, desired) /\ TowardsOptions(new, rest, desired)
          /\ TowardsBoot(new, rest, desired)
      BY <1>1, <1>2, <2>1, OptionsStayAhead DEF Towards
    <2>5. TowardsExclusions(new, rest, desired)
      BY <1>1, <1>2, <2>1, ExclusionsStayAhead DEF Towards
    <2>6. QED
      BY <2>2, <2>3, <2>4, <2>5 DEF Towards
  <1>5. \A step \in Ahead(rest) :
          /\ step.do.op \in WritingOps
          /\ step.tolerates \subseteq {"alreadyExists", "notFound"}
          /\ ~Does(step, "AddScope")
    <2>1. CASE rest = Tail(steps)
      BY <1>1, <2>1
    <2>2. CASE rest # Tail(steps)
      <3>1. Ahead(rest) = {Head(rest)} \cup T
        BY <2>2, AdvanceAhead
      <3>2. /\ Head(rest).do.op \in BatchOps \cup
                 {"AddToRelationship", "CreateRelationship", "RemoveRelationship"}
            /\ Head(rest).tolerates = next.tolerates
                 \/ Head(rest).tolerates \subseteq {"alreadyExists"}
        <4>1. CASE next.do.op \in BatchOps
          BY <2>2, <4>1, AdvanceKinds
        <4>2. CASE next.do.op \in LookupOps
          <5>1. /\ Head(rest).do.op \in
                     {"AddToRelationship", "CreateRelationship", "RemoveRelationship"}
                /\ Head(rest).tolerates \subseteq {"alreadyExists"}
            <6>1. Head(steps).do.op \in LookupOps => rest = Tail(steps) \/
                    /\ rest # << >> /\ Tail(rest) = Tail(steps)
                    /\ Head(rest).do.op \in
                         {"AddToRelationship", "CreateRelationship", "RemoveRelationship"}
                    /\ Head(rest).tolerates \subseteq {"alreadyExists"}
              BY AdvanceKinds
            <6>2. QED
              BY <2>2, <4>2, <6>1
          <5>2. QED
            BY <5>1
        <4>3. CASE next.do.op \notin BatchOps \cup LookupOps
          BY <2>2, <4>3, AdvanceKinds
        <4>4. QED
          BY <4>1, <4>2, <4>3
      <3>3. /\ Head(rest).do.op \in WritingOps
            /\ Head(rest).tolerates \subseteq {"alreadyExists", "notFound"}
            /\ ~Does(Head(rest), "AddScope")
        BY <1>1, <3>2 DEF WritingOps, BatchOps, Does
      <3>4. QED
        BY <1>1, <3>1, <3>3
    <2>3. QED
      BY <2>1, <2>2
  <1>6. rest # << >> =>
          Head(rest) \in Ahead(rest) /\ Ahead(Tail(rest)) \subseteq Ahead(rest)
    BY AheadHead
  <1>7. ~StartsAnew(rest)
    BY <1>5, <1>6 DEF StartsAnew
  <1>8. new # None
    BY <1>3, AbsentIsNoValue
  <1>9. QED
    BY <1>4, <1>5, <1>6, <1>7, <1>8 DEF Writing, Base

\* Whoever leaves a relationship looks after it next, or has just left it.
LEMMA LooksAdvances ==
    ASSUME NEW steps \in Seq(Step), NEW rest \in Seq(Step), NEW c, steps # << >>,
           Advance(steps, c, rest), LooksAfterLeaving(steps)
    PROVE  /\ LooksAfterLeaving(rest)
           /\ c.op = "RemoveFromRelationship" =>
                /\ rest # << >>
                /\ Head(rest).do = [op |-> "CleanupRelationship", arg |-> c.arg]
  <1> DEFINE next == Head(steps)
             T == Tail(steps)
  <1>1. /\ next = steps[1] /\ T \in Seq(Step)
        /\ Len(steps) \in Nat \ {0} /\ Len(T) = Len(steps) - 1
        /\ \A i \in 1 .. Len(T) : T[i] = steps[i + 1]
    OBVIOUS
  <1> HIDE DEF next, T
  <1>2. LooksAfterLeaving(T)
    <2>1. SUFFICES ASSUME NEW i \in 1 .. Len(T), Does(T[i], "RemoveFromRelationship")
                   PROVE  /\ i < Len(T)
                          /\ T[i + 1].do = [op |-> "CleanupRelationship", arg |-> T[i].do.arg]
      BY DEF LooksAfterLeaving
    <2>2. i + 1 \in 1 .. Len(steps) /\ T[i] = steps[i + 1]
      BY <1>1
    <2>3. /\ i + 1 < Len(steps)
          /\ steps[(i + 1) + 1].do =
               [op |-> "CleanupRelationship", arg |-> steps[i + 1].do.arg]
      BY <2>1, <2>2 DEF LooksAfterLeaving
    <2>4. i + 1 \in 1 .. Len(T)
      BY <1>1, <2>3
    <2>5. QED
      BY <1>1, <2>2, <2>3, <2>4
  <1>3. c = next.do \/ c.op \in {"AddExclusion", "RemoveExclusion"}
    <2>1. CASE next.do.op \in BatchOps
      <3>1. \E x : c = [op |-> Single[next.do.op], arg |-> x]
        BY <2>1 DEF Advance, BatchOps, LookupOps, next
      <3>2. c.op = Single[next.do.op]
        BY <3>1
      <3>3. QED
        BY <2>1, <3>2 DEF BatchOps, Single
    <2>2. CASE next.do.op \notin BatchOps
      BY <2>2 DEF Advance, next
    <2>3. QED
      BY <2>1, <2>2
  <1>4. rest # T =>
          /\ rest # << >> /\ Tail(rest) = T
          /\ c.op # "RemoveFromRelationship"
          /\ Head(rest).do.op # "RemoveFromRelationship"
    <2>1. CASE next.do.op \in BatchOps
      <3>1. rest # T =>
              /\ rest # << >> /\ Tail(rest) = T
              /\ \E x : /\ c = [op |-> Single[next.do.op], arg |-> x]
                       /\ Head(rest).do = [op |-> next.do.op, arg |-> next.do.arg \ {x}]
        BY <2>1 DEF Advance, BatchOps, LookupOps, next, T
      <3>2. rest # T => c.op = Single[next.do.op] /\ Head(rest).do.op = next.do.op
        <4>1. ASSUME NEW x, c = [op |-> Single[next.do.op], arg |-> x],
                     Head(rest).do = [op |-> next.do.op, arg |-> next.do.arg \ {x}]
              PROVE  c.op = Single[next.do.op] /\ Head(rest).do.op = next.do.op
          BY <4>1
        <4>2. QED
          BY <3>1, <4>1
      <3>3. QED
        BY <2>1, <3>1, <3>2 DEF BatchOps, Single
    <2>2. CASE next.do.op \in LookupOps
      <3>1. c = next.do
        BY <2>2 DEF Advance, BatchOps, LookupOps, next
      <3>2. rest # T =>
              /\ rest # << >> /\ Tail(rest) = T
              /\ \/ Head(rest).do.op \in {"AddToRelationship", "CreateRelationship"}
                 \/ Head(rest).do = [op |-> "RemoveRelationship", arg |-> next.do.arg]
        BY <2>2 DEF Advance, BatchOps, LookupOps, next, T
      <3>3. QED
        BY <2>2, <3>1, <3>2 DEF LookupOps
    <2>3. CASE next.do.op \notin BatchOps \cup LookupOps
      BY <2>3 DEF Advance, BatchOps, LookupOps, next, T
    <2>4. QED
      BY <2>1, <2>2, <2>3
  <1>5. CASE rest = T
    <2>1. ASSUME c.op = "RemoveFromRelationship"
          PROVE  /\ rest # << >>
                 /\ Head(rest).do = [op |-> "CleanupRelationship", arg |-> c.arg]
      <3>1. c = next.do
        BY <1>3, <2>1
      <3>2. 1 \in 1 .. Len(steps) /\ Does(steps[1], "RemoveFromRelationship")
        BY <1>1, <2>1, <3>1 DEF Does
      <3>3. 1 < Len(steps) /\ steps[1 + 1].do = [op |-> "CleanupRelationship", arg |-> c.arg]
        BY <1>1, <3>1, <3>2 DEF LooksAfterLeaving
      <3>4. 1 \in 1 .. Len(T) /\ T[1] = steps[1 + 1] /\ T # << >> /\ Head(T) = T[1]
        BY <1>1, <3>3
      <3>5. QED
        BY <1>5, <3>3, <3>4
    <2>2. QED
      BY <1>2, <1>5, <2>1
  <1>8. CASE rest # T
    <2>1. /\ rest # << >> /\ Tail(rest) = T
          /\ c.op # "RemoveFromRelationship"
          /\ Head(rest).do.op # "RemoveFromRelationship"
      BY <1>4, <1>8
    <2>2. /\ Len(rest) = Len(T) + 1 /\ Head(rest) = rest[1]
          /\ \A i \in 1 .. Len(T) : T[i] = rest[i + 1]
      <3>1. /\ Len(rest) \in Nat \ {0} /\ Head(rest) = rest[1]
            /\ Len(Tail(rest)) = Len(rest) - 1
            /\ \A i \in 1 .. Len(rest) - 1 : Tail(rest)[i] = rest[i + 1]
        BY <2>1
      <3>2. Tail(rest) = T
        BY <2>1
      <3>3. /\ Len(T) = Len(rest) - 1
            /\ \A i \in 1 .. Len(rest) - 1 : T[i] = rest[i + 1]
        BY <3>1, <3>2
      <3>4. Len(rest) = Len(T) + 1 /\ Len(rest) - 1 = Len(T)
        BY <3>1, <3>3
      <3>5. \A i \in 1 .. Len(T) : T[i] = rest[i + 1]
        BY <3>3, <3>4
      <3>6. QED
        BY <3>1, <3>4, <3>5
    <2>3. ASSUME NEW i \in 1 .. Len(rest), Does(rest[i], "RemoveFromRelationship")
          PROVE  /\ i < Len(rest)
                 /\ rest[i + 1].do = [op |-> "CleanupRelationship", arg |-> rest[i].do.arg]
      <3>1. i # 1
        BY <2>1, <2>2, <2>3 DEF Does
      <3>2. i - 1 \in 1 .. Len(T) /\ T[i - 1] = rest[i]
        BY <1>1, <2>2, <3>1
      <3>3. /\ i - 1 < Len(T)
            /\ T[(i - 1) + 1].do = [op |-> "CleanupRelationship", arg |-> T[i - 1].do.arg]
        BY <1>2, <2>3, <3>2 DEF LooksAfterLeaving
      <3>4. i \in 1 .. Len(T) /\ T[i] = rest[i + 1]
        BY <1>1, <2>2, <3>1, <3>3
      <3>5. QED
        BY <1>1, <2>2, <3>2, <3>3, <3>4
    <2>4. LooksAfterLeaving(rest)
      BY <2>3 DEF LooksAfterLeaving
    <2>5. QED
      BY <2>1, <2>4
  <1>9. QED
    BY <1>5, <1>8

\* What the cmdlets of a delete do, whatever they answer.
LEMMA RunDeletes ==
    ASSUME NEW srv \in Server, NEW s \in Scopes, NEW c \in Cmdlet, NEW new,
           new = Run(srv, s, c).server,
           c.op \in {"RemoveFromRelationship", "RemoveRelationship",
                     "RemoveExclusion", "RemoveScope"}
    PROVE  /\ RelationshipsOf(new, s) \subseteq RelationshipsOf(srv, s)
           /\ c.op = "RemoveFromRelationship" => c.arg \notin RelationshipsOf(new, s)
           /\ c.op = "RemoveScope" => ~Exists(new, s)
           /\ Exists(new, s) => Exists(srv, s)
  <1>1. RelationshipsOf(new, s) \subseteq RelationshipsOf(srv, s)
    BY RunLists, RelationshipsOfLists
  <1>2. ASSUME c.op = "RemoveFromRelationship"
        PROVE  c.arg \notin RelationshipsOf(new, s)
    <2> DEFINE n == c.arg
    <2>1. n \in Names
      BY <1>2, ConfigArgs
    <2>2. Run(srv, s, c) = RemoveFromRelationship(srv, s, n)
      BY <1>2 DEF Run, RunOnRelationship, RelationshipOps
    <2> HIDE DEF n
    <2>3. CASE srv.rels[n] = None \/ s \notin srv.rels[n].members
      BY <2>2, <2>3 DEF RemoveFromRelationship, Answers, RelationshipsOf, n
    <2>4. CASE srv.rels[n] # None /\ s \in srv.rels[n].members
      <3>1. new = [srv EXCEPT !.rels[n].members = @ \ {s}, !.synced = @ \ {s}]
        BY <2>2, <2>4 DEF RemoveFromRelationship, Answers
      <3>2. srv.rels[n] \in Relationship
        BY <2>1, <2>4 DEF Server
      <3>3. new.rels[n].members = srv.rels[n].members \ {s}
        BY <2>1, <3>1, <3>2 DEF Server, Relationship
      <3>4. QED
        BY <3>3 DEF RelationshipsOf, n
    <2>5. QED
      BY <2>3, <2>4
  <1>3. c.op = "RemoveScope" => ~Exists(new, s)
    BY RunRemoves
  <1>4. Exists(new, s) => Exists(srv, s)
    <2>1. CASE c.op \in {"RemoveFromRelationship", "RemoveRelationship"}
      BY <2>1, RunLeavesScopes DEF ConfigOps, Exists
    <2>2. CASE c.op \in {"RemoveExclusion", "RemoveScope"}
      BY <2>2 DEF Run, RelationshipOps, Answers
    <2>3. QED
      BY <2>1, <2>2
  <1>5. QED
    BY <1>1, <1>2, <1>3, <1>4

\* A delete stays on its way.
LEMMA DeletingAdvances ==
    ASSUME NEW srv, NEW new, NEW s, NEW steps \in Seq(Step), NEW rest \in Seq(Step),
           NEW c, steps # << >>, Deleting(srv, s, steps), Advance(steps, c, rest),
           RelationshipsOf(new, s) \subseteq RelationshipsOf(srv, s),
           c.op = "RemoveFromRelationship" => c.arg \notin RelationshipsOf(new, s),
           c.op = "RemoveScope" => ~Exists(new, s),
           Exists(new, s) => Exists(srv, s)
    PROVE  Deleting(new, s, rest)
  <1> DEFINE next == Head(steps)
             T == Ahead(Tail(steps))
  <1>1. /\ Ahead(steps) = {next} \cup T
        /\ rest = Tail(steps) \/ Ahead(rest) = {Head(rest)} \cup T
    BY AdvanceAhead
  <1>2. \A step \in Ahead(rest) :
          /\ step.do.op \in DeletingOps
          /\ step.do.op # "RemoveExclusions" => step.tolerates = {}
    <2>1. CASE rest = Tail(steps)
      BY <1>1, <2>1 DEF Deleting
    <2>2. CASE rest # Tail(steps)
      <3>1. next.do.op \in DeletingOps
        BY <1>1 DEF Deleting
      <3>2. \/ next.do.op = "RemoveExclusions" /\ Head(rest).do.op = next.do.op
            \/ /\ Head(rest).do = [op |-> "RemoveRelationship", arg |-> next.do.arg]
               /\ Head(rest).tolerates = {}
        <4>1. CASE next.do.op \in BatchOps
          BY <2>2, <3>1, <4>1, AdvanceKinds DEF BatchOps, DeletingOps
        <4>2. CASE next.do.op \notin BatchOps
          BY <2>2, <3>1, <4>2 DEF Advance, LookupOps, DeletingOps
        <4>3. QED
          BY <4>1, <4>2
      <3>3. /\ Head(rest).do.op \in DeletingOps
            /\ Head(rest).do.op # "RemoveExclusions" => Head(rest).tolerates = {}
        BY <3>2 DEF DeletingOps
      <3>4. QED
        BY <1>1, <2>2, <3>3 DEF Deleting
    <2>3. QED
      BY <2>1, <2>2
  <1>3. RelationshipsOf(new, s) = {}
    <2>1. CASE RelationshipsOf(srv, s) = {}
      BY <2>1
    <2>2. CASE RelationshipsOf(srv, s) # {}
      <3>1. /\ next.do.op = "RemoveFromRelationship"
            /\ RelationshipsOf(srv, s) = {next.do.arg}
        BY <2>2 DEF Deleting, Does
      <3>2. c = next.do
        BY <3>1, AdvanceKinds DEF BatchOps
      <3>3. QED
        BY <3>1, <3>2
    <2>3. QED
      BY <2>1, <2>2
  <1>4. Exists(new, s) => \E step \in Ahead(rest) : Does(step, "RemoveScope")
    <2> SUFFICES ASSUME Exists(new, s)
                 PROVE  \E step \in Ahead(rest) : Does(step, "RemoveScope")
      OBVIOUS
    <2>1. PICK step \in Ahead(steps) : Does(step, "RemoveScope")
      BY DEF Deleting
    <2>2. step # next
      <3>1. SUFFICES ASSUME step = next PROVE FALSE
        OBVIOUS
      <3>2. c = next.do /\ c.op = "RemoveScope"
        BY <2>1, <3>1, AdvanceKinds DEF BatchOps, Does
      <3>3. QED
        BY <3>2
    <2>3. step \in Ahead(rest)
      BY <1>1, <2>2
    <2>4. QED
      BY <2>1, <2>3
  <1>5. QED
    BY <1>2, <1>3, <1>4 DEF Deleting

-----------------------------------------------------------------------------
(* What a step of one request leaves of what was promised *)

\* The server has changed, if at all, at the scope s.
Elsewhere(s) ==
    \A t \in Scopes \ {s} :
        /\ server'.scopes[t] = server.scopes[t]
        /\ RelationshipsOf(server', t) \subseteq RelationshipsOf(server, t)

\* Two writes past the lock are about two scopes.
LEMMA HoldersDiffer ==
    ASSUME IInv, NEW r \in Requests, NEW q \in Requests, q # r,
           pc[r] \in Locked, pc[q] \in Locked
    PROVE  scope(q) # scope(r) /\ scope(q) \in Scopes
  BY StagesDistinct, RequestFacts
     DEF IInv, Control, HolderHeadsQueue, StageMatchesRequest, scope

\* A delete of another scope is not disturbed.
LEMMA DeletingElsewhere ==
    ASSUME NEW srv, NEW new, NEW s, NEW steps, Deleting(srv, s, steps),
           new.scopes[s] = srv.scopes[s],
           RelationshipsOf(new, s) \subseteq RelationshipsOf(srv, s)
    PROVE  Deleting(new, s, steps)
  BY DEF Deleting, Exists

\* What is promised of a write that goes on is still promised of all writes.
LEMMA OthersOnTheWay ==
    ASSUME PInv, NEW r \in Requests, NEW q \in Requests, q # r,
           pc'[q] = pc[q], todo'[q] = todo[q], request' = request,
           server' = server \/ (pc[r] \in Locked /\ Elsewhere(scope(r)))
    PROVE  /\ pc'[q] \in {"create", "converge"} =>
                Writing(server'.scopes[scope(q)], todo'[q], request'[q].desired)
           /\ pc'[q] = "delete" => Deleting(server', scope(q), todo'[q])
  <1>1. CASE server' = server
    BY <1>1 DEF PInv, WritesOnTheWay, DeletesOnTheWay
  <1>2. CASE server' # server
    <2>1. SUFFICES ASSUME pc[q] \in {"create", "converge", "delete"}
                   PROVE  /\ pc'[q] \in {"create", "converge"} =>
                               Writing(server'.scopes[scope(q)], todo'[q],
                                       request'[q].desired)
                          /\ pc'[q] = "delete" => Deleting(server', scope(q), todo'[q])
      OBVIOUS
    <2>2. scope(q) \in Scopes \ {scope(r)}
      BY <1>2, <2>1, HoldersDiffer DEF Locked, PInv
    <2>3. /\ server'.scopes[scope(q)] = server.scopes[scope(q)]
          /\ RelationshipsOf(server', scope(q)) \subseteq RelationshipsOf(server, scope(q))
      BY <1>2, <2>2 DEF Elsewhere
    <2>4. QED
      BY <2>3, DeletingElsewhere DEF PInv, WritesOnTheWay, DeletesOnTheWay
  <1>3. QED
    BY <1>1, <1>2

\* A handler that enters a stage with a plan that leads where it must keeps the
\* invariant.
LEMMA ProceedPInv ==
    ASSUME PInv, IInv', NEW r \in Requests, pc[r] \in Locked,
           NEW stage \in Locked, NEW steps, Proceed(r, stage, steps), request' = request,
           Elsewhere(scope(r)), OneRelationship(server'), AllMembersExist(server'),
           stage \in {"create", "converge"} =>
             /\ Writing(server'.scopes[scope(r)], steps, request[r].desired)
             /\ verb(r) # "DELETE",
           stage = "delete" => Deleting(server', scope(r), steps)
    PROVE  PInv'
  <1>1. /\ pc' = [pc EXCEPT ![r] = stage] /\ todo' = [todo EXCEPT ![r] = steps]
        /\ reply' = reply
    BY DEF Proceed
  <1>2. /\ pc \in [Requests -> Stages] /\ todo \in [Requests -> Seq(Step)]
    BY DEF PInv, IInv, Control, ControlType
  <1>3. \A q \in Requests \ {r} : pc'[q] = pc[q] /\ todo'[q] = todo[q]
    BY <1>1, <1>2
  <1>4. pc'[r] = stage /\ todo'[r] = steps
    BY <1>1, <1>2
  <1>5. WritesOnTheWay' /\ DeletesOnTheWay'
    <2>1. ASSUME NEW q \in Requests
          PROVE  /\ pc'[q] \in {"create", "converge"} =>
                      Writing(server'.scopes[scope(q)], todo'[q], request'[q].desired)
                 /\ pc'[q] = "delete" => Deleting(server', scope(q), todo'[q])
      <3>1. CASE q = r
        BY <1>4, <3>1
      <3>2. CASE q # r
        BY <1>3, <3>2, OthersOnTheWay
      <3>3. QED
        BY <3>1, <3>2
    <2>2. QED
      BY <2>1 DEF WritesOnTheWay, DeletesOnTheWay, scope
  <1>6. RepliedIsDone' /\ RepliesAsAsked' /\ StagesByVerb'
    BY <1>1, <1>2, <1>3, <1>4, StagesDistinct
       DEF PInv, RepliedIsDone, RepliesAsAsked, StagesByVerb, verb
  <1>7. QED
    BY <1>5, <1>6 DEF PInv

\* What is promised survives the answer to one request, given that a 200 to a
\* write carries what was asked for.
LEMMA AnswerPInv ==
    ASSUME PInv, IInv', NEW r \in Requests, NEW status, NEW body,
           Answer(r, status, body), request' = request,
           server' = server \/ (pc[r] \in Locked /\ Elsewhere(scope(r))),
           OneRelationship(server'), AllMembersExist(server'),
           status = "ok" /\ verb(r) # "GET" =>
             [body EXCEPT !.failover = None] =
                [request[r].desired EXCEPT !.failover = None]
    PROVE  PInv'
  <1>1. /\ pc' = [pc EXCEPT ![r] = "done"] /\ todo' = [todo EXCEPT ![r] = << >>]
        /\ reply' = [reply EXCEPT ![r] = [status |-> status, body |-> body]]
    BY DEF Answer
  <1>2. /\ pc \in [Requests -> Stages] /\ todo \in [Requests -> Seq(Step)]
        /\ reply \in [Requests -> Reply \cup {None}]
    BY DEF PInv, IInv, Control, ControlType
  <1>3. \A q \in Requests \ {r} :
          pc'[q] = pc[q] /\ todo'[q] = todo[q] /\ reply'[q] = reply[q]
    BY <1>1, <1>2
  <1>4. pc'[r] = "done" /\ reply'[r] = [status |-> status, body |-> body]
    BY <1>1, <1>2
  <1>5. WritesOnTheWay' /\ DeletesOnTheWay'
    <2>1. ASSUME NEW q \in Requests
          PROVE  /\ pc'[q] \in {"create", "converge"} =>
                      Writing(server'.scopes[scope(q)], todo'[q], request'[q].desired)
                 /\ pc'[q] = "delete" => Deleting(server', scope(q), todo'[q])
      <3>1. CASE q = r
        BY <1>4, <3>1
      <3>2. CASE q # r
        BY <1>3, <3>2, OthersOnTheWay
      <3>3. QED
        BY <3>1, <3>2
    <2>2. QED
      BY <2>1 DEF WritesOnTheWay, DeletesOnTheWay, scope
  <1>6. RepliedIsDone' /\ StagesByVerb'
    BY <1>3, <1>4 DEF PInv, RepliedIsDone, StagesByVerb, verb
  <1>7. RepliesAsAsked'
    <2>1. ASSUME NEW q \in Requests, reply'[q] # None, reply'[q].status = "ok",
                 verb(q) # "GET"
          PROVE  [reply'[q].body EXCEPT !.failover = None] =
                    [request[q].desired EXCEPT !.failover = None]
      <3>1. CASE q = r
        BY <1>4, <2>1, <3>1
      <3>2. CASE q # r
        BY <1>3, <2>1, <3>2 DEF PInv, RepliesAsAsked
      <3>3. QED
        BY <3>1, <3>2
    <2>2. QED
      BY <2>1 DEF RepliesAsAsked, verb
  <1>8. QED
    BY <1>5, <1>6, <1>7 DEF PInv

\* A lookup, and the step it decides on.
LEMMA LookupAdvances ==
    ASSUME IInv, NEW r \in Requests, _fetch_failover_by_name(r)
    PROVE  \E rest \in Seq(Step) :
             /\ Proceed(r, pc[r], rest)
             /\ Advance(todo[r], Head(todo[r]).do, rest)
             /\ Head(todo[r]).do.op \in LookupOps
             /\ pc[r] \in {"create", "converge", "delete"} /\ todo[r] # << >>
  <1> DEFINE next == Head(todo[r])
             later == Tail(todo[r])
             attach == Tolerant("AddToRelationship", next.do.arg.name, {"alreadyExists"})
             create == Call("CreateRelationship", next.do.arg)
             first == IF server.rels[next.do.arg.name] # None THEN attach ELSE create
             empty == server.rels[next.do.arg] # None
                        /\ server.rels[next.do.arg].members = {}
             remove == Call("RemoveRelationship", next.do.arg)
  <1>1. /\ pc[r] \in {"create", "converge", "delete"} /\ todo[r] # << >>
        /\ \/ /\ next.do.op = "SetupFailover"
              /\ Proceed(r, pc[r], <<first>> \o later)
           \/ /\ next.do.op = "CleanupRelationship"
              /\ Proceed(r, pc[r], When(empty, <<remove>>) \o later)
    BY DEF _fetch_failover_by_name
  <1>2. todo[r] \in Seq(Step)
    BY DEF IInv, Control, ControlType
  <1>3. next \in Step /\ later \in Seq(Step)
    BY <1>1, <1>2, AheadHead
  <1>4. /\ next.do.op = "SetupFailover" => next.do.arg \in Failover
        /\ next.do.op = "CleanupRelationship" => next.do.arg \in Names
    BY <1>3 DEF Step, Cmdlet, Batches, Lookups
  <1>5. /\ attach.do = [op |-> "AddToRelationship", arg |-> next.do.arg.name]
        /\ attach.tolerates = {"alreadyExists"}
        /\ create.do = [op |-> "CreateRelationship", arg |-> next.do.arg]
        /\ create.tolerates = {}
        /\ remove.do = [op |-> "RemoveRelationship", arg |-> next.do.arg]
        /\ remove.tolerates = {}
    BY DEF Tolerant, Call
  <1>6. next.do.op = "SetupFailover" => attach \in Step /\ create \in Step
    <2>1. SUFFICES ASSUME next.do.op = "SetupFailover"
                   PROVE  attach \in Step /\ create \in Step
      OBVIOUS
    <2>2. next.do.arg \in Failover /\ next.do.arg.name \in Names
      BY <1>4, <2>1 DEF Failover
    <2>3. /\ [op |-> "AddToRelationship", arg |-> next.do.arg.name] \in Cmdlet
          /\ [op |-> "CreateRelationship", arg |-> next.do.arg] \in Cmdlet
      BY <2>2 DEF Cmdlet
    <2>4. QED
      BY <2>3, TolerantType, CallType, ToleratedKinds
  <1>7. next.do.op = "CleanupRelationship" => remove \in Step
    <2>1. SUFFICES ASSUME next.do.op = "CleanupRelationship" PROVE remove \in Step
      OBVIOUS
    <2>2. [op |-> "RemoveRelationship", arg |-> next.do.arg] \in Cmdlet
      BY <1>4, <2>1 DEF Cmdlet
    <2>3. QED
      BY <2>2, CallType
  <1> HIDE DEF attach, create, empty, remove
  <1>8. CASE next.do.op = "SetupFailover" /\ Proceed(r, pc[r], <<first>> \o later)
    <2>1. /\ first \in Step /\ first.tolerates \subseteq {"alreadyExists"}
          /\ \/ first.do = [op |-> "AddToRelationship", arg |-> next.do.arg.name]
             \/ first.do = [op |-> "CreateRelationship", arg |-> next.do.arg]
      BY <1>5, <1>6, <1>8
    <2> HIDE DEF first
    <2> DEFINE rest == <<first>> \o later
    <2>2. /\ rest \in Seq(Step) /\ rest # << >> /\ Head(rest) = first /\ Tail(rest) = later
      BY <1>3, <2>1, ConsParts
    <2> HIDE DEF rest
    <2>3. Advance(todo[r], next.do, rest)
      BY <1>8, <2>1, <2>2 DEF Advance
    <2>4. Proceed(r, pc[r], rest)
      BY <1>8 DEF rest
    <2>5. QED
      BY <1>1, <1>8, <2>2, <2>3, <2>4 DEF LookupOps
  <1>9. CASE /\ next.do.op = "CleanupRelationship"
             /\ Proceed(r, pc[r], When(empty, <<remove>>) \o later)
    <2> HIDE DEF next, later
    <2>1. CASE empty
      <3> DEFINE rest == <<remove>> \o later
      <3>1. /\ rest \in Seq(Step) /\ rest # << >>
            /\ Head(rest) = remove /\ Tail(rest) = later
        BY <1>3, <1>7, <1>9, ConsParts
      <3>2. Proceed(r, pc[r], rest)
        BY <1>9, <2>1 DEF When
      <3> HIDE DEF rest
      <3>3. Advance(todo[r], next.do, rest)
        BY <1>5, <1>9, <3>1 DEF Advance, next, later
      <3>4. QED
        BY <1>1, <1>9, <3>1, <3>2, <3>3 DEF LookupOps, next
    <2>2. CASE ~empty
      <3>1. << >> \o later = later
        BY <1>3
      <3>2. Proceed(r, pc[r], later)
        BY <1>9, <2>2, <3>1 DEF When
      <3>3. Advance(todo[r], next.do, later)
        BY <1>9 DEF Advance, LookupOps, next, later
      <3>4. QED
        BY <1>1, <1>3, <1>9, <3>2, <3>3 DEF LookupOps, next
    <2>3. QED
      BY <2>1, <2>2
  <1>10. QED
    BY <1>1, <1>8, <1>9

\* What is known of a request past the lock.
LEMMA HolderFacts ==
    ASSUME IInv, NEW r \in Requests, pc[r] \in Locked
    PROVE  /\ scope(r) \in Scopes /\ server \in Server /\ todo[r] \in Seq(Step)
           /\ server.scopes[scope(r)] \in ScopeConfig \cup {None}
           /\ verb(r) \in {"POST", "PUT", "DELETE"}
           /\ verb(r) # "DELETE" =>
                request[r].desired \in Payload /\ Valid(request[r].desired)
  <1>1. request[r] \in Request /\ verb(r) # "GET"
        /\ (verb(r) \in {"POST", "PUT"} => request[r].desired \in Payloads)
    BY StagesDistinct DEF IInv, Control, StageMatchesRequest
  <1>2. scope(r) \in Scopes /\ verb(r) \in {"GET", "POST", "PUT", "DELETE"}
    BY <1>1, RequestFacts DEF scope, verb
  <1>3. server \in Server /\ todo[r] \in Seq(Step)
    BY DEF IInv, DataType, Control, ControlType
  <1>4. server.scopes[scope(r)] \in ScopeConfig \cup {None}
    BY <1>2, <1>3 DEF Server
  <1>5. QED
    BY <1>1, <1>2, <1>3, <1>4, ServiceAssumption

\* A lookup changes nothing, and every plan stays on its way.
LEMMA LookupPInv ==
    ASSUME PInv, IInv', NEW r \in Requests, _fetch_failover_by_name(r)
    PROVE  PInv'
  <1>1. PICK rest \in Seq(Step) :
          /\ Proceed(r, pc[r], rest)
          /\ Advance(todo[r], Head(todo[r]).do, rest)
          /\ Head(todo[r]).do.op \in LookupOps
          /\ pc[r] \in {"create", "converge", "delete"} /\ todo[r] # << >>
    BY LookupAdvances DEF PInv
  <1>2. server' = server /\ request' = request
    BY DEF _fetch_failover_by_name
  <1>3. pc[r] \in Locked
    BY <1>1 DEF Locked
  <1>4. /\ todo[r] \in Seq(Step)
        /\ server.scopes[scope(r)] \in ScopeConfig \cup {None}
    BY <1>3, HolderFacts DEF PInv
  <1> DEFINE c == Head(todo[r]).do
             held == server.scopes[scope(r)]
  <1>5. c.op \in LookupOps /\ c.op \notin {"AddScope", "RemoveFromRelationship", "RemoveScope"}
    BY <1>1 DEF LookupOps
  <1>6. Applied(held, c) = held
    BY <1>5 DEF Applied, LookupOps
  <1> HIDE DEF c, held
  <1>7. pc[r] \in {"create", "converge"} => Writing(held, rest, request[r].desired)
    <2>1. SUFFICES ASSUME pc[r] \in {"create", "converge"}
                   PROVE  Writing(held, rest, request[r].desired)
      OBVIOUS
    <2>2. Writing(held, todo[r], request[r].desired)
      BY <2>1 DEF PInv, WritesOnTheWay, held
    <2>3. Advance(todo[r], c, rest) /\ held \in ScopeConfig \cup {None}
      BY <1>1, <1>4 DEF c, held
    <2>4. QED
      BY <1>1, <1>4, <1>5, <1>6, <2>2, <2>3, WritingAdvances
  <1>8. pc[r] = "delete" => Deleting(server, scope(r), rest)
    <2>1. SUFFICES ASSUME pc[r] = "delete" PROVE Deleting(server, scope(r), rest)
      OBVIOUS
    <2>2. Deleting(server, scope(r), todo[r])
      BY <2>1 DEF PInv, DeletesOnTheWay
    <2>3. Advance(todo[r], c, rest)
      BY <1>1 DEF c
    <2>4. QED
      BY <1>1, <1>4, <1>5, <2>2, <2>3, DeletingAdvances
  <1>9. Elsewhere(scope(r)) /\ OneRelationship(server') /\ AllMembersExist(server')
    BY <1>2 DEF Elsewhere, PInv
  <1>10. QED
    BY <1>1, <1>2, <1>3, <1>7, <1>8, <1>9, ProceedPInv DEF held, PInv, StagesByVerb

-----------------------------------------------------------------------------
(* What a script does, once, twice or not at all *)

Twice(srv, s, c) == Run(Run(srv, s, c).server, s, c)

\* The server and the outcome after a script, with the faults it can meet.
Took(srv, s, c, new, outcome) ==
    \/ new = Run(srv, s, c).server /\ outcome = Run(srv, s, c).outcome
    \/ new = Twice(srv, s, c).server /\ outcome = Twice(srv, s, c).outcome
    \/ /\ new = srv \/ new = Run(srv, s, c).server
       /\ outcome \in {"failed", "timeout", "broken"}

\* However it ended, a script leaves a server state in which no scope is in two
\* relationships, and changes nothing of another scope.
LEMMA TookKeeps ==
    ASSUME NEW srv \in Server, NEW s \in Scopes, NEW c \in Cmdlet, NEW new,
           NEW outcome, Took(srv, s, c, new, outcome),
           OneRelationship(srv), AllMembersExist(srv),
           c.op = "RemoveScope" => RelationshipsOf(srv, s) = {}
    PROVE  /\ new \in Server /\ OneRelationship(new) /\ AllMembersExist(new)
           /\ \A t \in Scopes \ {s} :
                /\ new.scopes[t] = srv.scopes[t]
                /\ RelationshipsOf(new, t) \subseteq RelationshipsOf(srv, t)
  <1> DEFINE once == Run(srv, s, c).server
             again == Run(once, s, c).server
  <1>1. new \in {srv, once, again}
    BY DEF Took, Twice
  <1>2. once \in Server /\ OneRelationship(once) /\ AllMembersExist(once)
    BY RunType, RunOneRelationship, RunMembersExist
  <1>3. ASSUME c.op = "RemoveScope"
        PROVE  RelationshipsOf(once, s) = {}
    <2>1. once.rels = srv.rels
      BY <1>3, RunLeavesRelationships
    <2>2. QED
      BY <1>3, <2>1 DEF RelationshipsOf
  <1>4. \A t \in Scopes \ {s} :
          /\ once.scopes[t] = srv.scopes[t]
          /\ RelationshipsOf(once, t) \subseteq RelationshipsOf(srv, t)
    BY RunElsewhere
  <1> HIDE DEF once
  <1>5. again \in Server /\ OneRelationship(again) /\ AllMembersExist(again)
    BY <1>2, <1>3, RunType, RunOneRelationship, RunMembersExist
  <1>6. \A t \in Scopes \ {s} :
          /\ again.scopes[t] = once.scopes[t]
          /\ RelationshipsOf(again, t) \subseteq RelationshipsOf(once, t)
    BY <1>2, RunElsewhere
  <1> HIDE DEF again
  <1>7. QED
    BY <1>1, <1>2, <1>4, <1>5, <1>6

\* A script of a write that is answered with success, or with an error that
\* means the work is already done, has done it.
LEMMA TookWrites ==
    ASSUME NEW srv \in Server, NEW s \in Scopes, NEW c \in Cmdlet, NEW new,
           NEW outcome \in {"ok", "alreadyExists", "notFound"},
           Took(srv, s, c, new, outcome),
           c.op # "RemoveScope", c.op = "AddScope" <=> ~Exists(srv, s)
    PROVE  /\ c.op = "AddScope" => new.scopes[s] = Fresh(c.arg)
           /\ c.op # "AddScope" => new.scopes[s] = Applied(srv.scopes[s], c)
  <1> DEFINE once == Run(srv, s, c).server
  <1>1. \/ new = once /\ outcome = Run(srv, s, c).outcome
        \/ new = Run(once, s, c).server /\ outcome = Run(once, s, c).outcome
    BY DEF Took, Twice
  <1>2. once \in Server
    BY RunType
  <1>3. CASE c.op = "AddScope"
    <2>1. once.scopes[s] = Fresh(c.arg) /\ Fresh(c.arg) # None
      BY <1>3, RunCreates
    <2> HIDE DEF once
    <2>2. Run(once, s, c).server = once
      BY <1>2, <1>3, <2>1, RunCreates DEF Exists
    <2>3. QED
      BY <1>1, <1>3, <2>1, <2>2
  <1>4. CASE c.op # "AddScope"
    <2> DEFINE held == srv.scopes[s]
    <2>1. held \in ScopeConfig /\ Exists(srv, s)
      BY <1>4 DEF Exists, Server
    <2>2. Run(srv, s, c).outcome # "refused" => once.scopes[s] = Applied(held, c)
      BY <1>4, <2>1, RunApplies
    <2>3. Run(srv, s, c).outcome = "refused" => once = srv
      BY <1>4, <2>1, RunApplies
    <2>4. CASE Run(srv, s, c).outcome = "refused"
      <3>1. once = srv
        BY <2>3, <2>4
      <3>2. outcome = "refused"
        BY <1>1, <2>4, <3>1
      <3>3. QED
        BY <3>2
    <2>5. CASE Run(srv, s, c).outcome # "refused"
      <3>1. once.scopes[s] = Applied(held, c)
        BY <2>2, <2>5
      <3>2. Applied(held, c) \in ScopeConfig
        BY <2>1, AppliedType
      <3>3. Exists(once, s)
        BY <3>1, <3>2, AbsentIsNoValue DEF Exists
      <3> HIDE DEF once
      <3>4. Run(once, s, c).outcome # "refused" =>
              Run(once, s, c).server.scopes[s] = Applied(once.scopes[s], c)
        BY <1>2, <1>4, <3>3, RunApplies
      <3>5. Applied(Applied(held, c), c) = Applied(held, c)
        BY <2>1, AppliedTwice
      <3> HIDE DEF held
      <3>6. QED
        BY <1>1, <1>4, <3>1, <3>4, <3>5 DEF held
    <2>6. QED
      BY <2>4, <2>5
  <1>5. QED
    BY <1>3, <1>4

\* A script of a delete: nothing comes back, and what had to succeed did.
LEMMA TookDeletes ==
    ASSUME NEW srv \in Server, NEW s \in Scopes, NEW c \in Cmdlet, NEW new,
           NEW outcome, Took(srv, s, c, new, outcome),
           c.op \in {"RemoveFromRelationship", "RemoveRelationship",
                     "RemoveExclusion", "RemoveScope"},
           c.op # "RemoveExclusion" => outcome = "ok"
    PROVE  /\ RelationshipsOf(new, s) \subseteq RelationshipsOf(srv, s)
           /\ c.op = "RemoveFromRelationship" => c.arg \notin RelationshipsOf(new, s)
           /\ c.op = "RemoveScope" => ~Exists(new, s)
           /\ Exists(new, s) => Exists(srv, s)
  <1> DEFINE once == Run(srv, s, c).server
             again == Run(once, s, c).server
  <1>1. \/ new \in {once, again}
        \/ new = srv /\ c.op = "RemoveExclusion"
    BY DEF Took, Twice
  <1>2. /\ once \in Server
        /\ RelationshipsOf(once, s) \subseteq RelationshipsOf(srv, s)
        /\ c.op = "RemoveFromRelationship" => c.arg \notin RelationshipsOf(once, s)
        /\ c.op = "RemoveScope" => ~Exists(once, s)
        /\ Exists(once, s) => Exists(srv, s)
    BY RunDeletes, RunType
  <1> HIDE DEF once
  <1>3. /\ RelationshipsOf(again, s) \subseteq RelationshipsOf(once, s)
        /\ c.op = "RemoveFromRelationship" => c.arg \notin RelationshipsOf(again, s)
        /\ c.op = "RemoveScope" => ~Exists(again, s)
        /\ Exists(again, s) => Exists(once, s)
    BY <1>2, RunDeletes
  <1> HIDE DEF again
  <1>4. QED
    BY <1>1, <1>2, <1>3

\* A step that issues a script: the cmdlet, what became of it, what the request
\* makes of that, and whether it took a fault.
LEMMA ScriptEffect ==
    ASSUME IInv, NEW r \in Requests, _run_ps(r) \/ FailCmdlet(r) \/ Rerun(r)
    PROVE  /\ pc[r] \in {"create", "converge", "delete"} /\ todo[r] # << >>
           /\ request' = request
           /\ \E c \in Issuable(todo[r]) :
              \E outcome \in Outcomes \cup {"timeout", "broken"} :
                /\ Took(server, scope(r), c.cmdlet, server', outcome)
                /\ Conclude(r, c.rest, outcome)
                /\ \/ faults' = faults + 1
                   \/ /\ faults' = faults
                      /\ server' = Run(server, scope(r), c.cmdlet).server
                      /\ outcome = Run(server, scope(r), c.cmdlet).outcome
  <1>1. PICK c \in Issuing(r) :
          /\ request' = request
          /\ \/ /\ server' = Run(server, scope(r), c.cmdlet).server
                /\ Conclude(r, c.rest, Run(server, scope(r), c.cmdlet).outcome)
                /\ faults' = faults
             \/ \E kind \in {"failed", "timeout", "broken"} :
                  /\ faults' = faults + 1
                  /\ server' = server
                       \/ server' = Run(server, scope(r), c.cmdlet).server
                  /\ Conclude(r, c.rest, kind)
             \/ /\ faults' = faults + 1
                /\ server' = Twice(server, scope(r), c.cmdlet).server
                /\ Conclude(r, c.rest, Twice(server, scope(r), c.cmdlet).outcome)
    BY DEF _run_ps, FailCmdlet, Rerun, Fault, Twice
  <1>2. /\ pc[r] \in {"create", "converge", "delete"} /\ todo[r] # << >>
        /\ c \in Issuable(todo[r])
    BY <1>1 DEF Issuing
  <1>3. scope(r) \in Scopes /\ server \in Server /\ todo[r] \in Seq(Step)
    BY <1>2, HolderFacts DEF Locked
  <1>4. c.cmdlet \in Cmdlet
    BY <1>2, <1>3, IssuableType
  <1>5. /\ Run(server, scope(r), c.cmdlet).server \in Server
        /\ Run(server, scope(r), c.cmdlet).outcome \in Outcomes
    BY <1>3, <1>4, RunType
  <1>6. Twice(server, scope(r), c.cmdlet).outcome \in Outcomes
    BY <1>3, <1>4, <1>5, RunType DEF Twice
  <1>7. \E outcome \in Outcomes \cup {"timeout", "broken"} :
          /\ Took(server, scope(r), c.cmdlet, server', outcome)
          /\ Conclude(r, c.rest, outcome)
          /\ \/ faults' = faults + 1
             \/ /\ faults' = faults
                /\ server' = Run(server, scope(r), c.cmdlet).server
                /\ outcome = Run(server, scope(r), c.cmdlet).outcome
    <2>1. CASE /\ server' = Run(server, scope(r), c.cmdlet).server
               /\ Conclude(r, c.rest, Run(server, scope(r), c.cmdlet).outcome)
               /\ faults' = faults
      BY <1>5, <2>1 DEF Took
    <2>2. ASSUME NEW kind \in {"failed", "timeout", "broken"},
                 faults' = faults + 1, Conclude(r, c.rest, kind),
                 server' = server \/ server' = Run(server, scope(r), c.cmdlet).server
          PROVE  \E outcome \in Outcomes \cup {"timeout", "broken"} :
                   /\ Took(server, scope(r), c.cmdlet, server', outcome)
                   /\ Conclude(r, c.rest, outcome)
                   /\ faults' = faults + 1
      BY <2>2 DEF Took, Outcomes, CmdletErrors
    <2>3. CASE /\ faults' = faults + 1
               /\ server' = Twice(server, scope(r), c.cmdlet).server
               /\ Conclude(r, c.rest, Twice(server, scope(r), c.cmdlet).outcome)
      BY <1>6, <2>3 DEF Took
    <2>4. QED
      BY <1>1, <2>1, <2>2, <2>3
  <1>8. QED
    BY <1>1, <1>2, <1>7

\* A plan goes on over a script that did its work, and ends with one that did not.
LEMMA ScriptPInv ==
    ASSUME PInv, IInv', NEW r \in Requests, _run_ps(r) \/ FailCmdlet(r) \/ Rerun(r)
    PROVE  PInv'
  <1>1. /\ pc[r] \in {"create", "converge", "delete"} /\ todo[r] # << >>
        /\ request' = request
    BY ScriptEffect DEF PInv
  <1>2. PICK issued \in Issuable(todo[r]), outcome \in Outcomes \cup {"timeout", "broken"} :
          /\ Took(server, scope(r), issued.cmdlet, server', outcome)
          /\ Conclude(r, issued.rest, outcome)
    BY ScriptEffect DEF PInv
  <1> DEFINE c == issued.cmdlet
             rest == issued.rest
             s == scope(r)
             held == server.scopes[s]
             next == Head(todo[r])
  <1>3. pc[r] \in Locked
    BY <1>1 DEF Locked
  <1>4. /\ s \in Scopes /\ server \in Server /\ todo[r] \in Seq(Step)
        /\ held \in ScopeConfig \cup {None}
    BY <1>3, HolderFacts DEF PInv
  <1>5. c \in Cmdlet /\ rest \in Seq(Step)
    BY <1>1, <1>2, <1>4, IssuableType
  <1>6. Advance(todo[r], c, rest)
    BY <1>1, <1>2, <1>4, IssuableAdvances
  <1>7. /\ Took(server, s, c, server', outcome) /\ Conclude(r, rest, outcome)
        /\ OneRelationship(server) /\ AllMembersExist(server)
    BY <1>2 DEF PInv
  <1>8. /\ next.do.op \notin BatchOps => c = next.do
        /\ next.do.op = "AddExclusions" => c.op = "AddExclusion"
        /\ next.do.op = "RemoveExclusions" => c.op = "RemoveExclusion"
        /\ Ahead(todo[r]) = {next} \cup Ahead(Tail(todo[r]))
    <2> HIDE DEF c, rest
    <2>1. /\ next.do.op \notin BatchOps => c = next.do
          /\ next.do.op \in BatchOps =>
               /\ next.do.op = "AddExclusions" => c.op = "AddExclusion"
               /\ next.do.op = "RemoveExclusions" => c.op = "RemoveExclusion"
      BY <1>6, AdvanceKinds
    <2>2. Ahead(todo[r]) = {next} \cup Ahead(Tail(todo[r]))
      BY <1>1, <1>4, AheadHead
    <2>3. QED
      BY <2>1, <2>2 DEF BatchOps
  <1>9. pc[r] \in {"create", "converge"} =>
          /\ Writing(held, todo[r], request[r].desired)
          /\ c.op # "RemoveScope" /\ (c.op = "AddScope" <=> held = None)
          /\ next.tolerates \subseteq {"alreadyExists", "notFound"}
    <2>1. SUFFICES ASSUME pc[r] \in {"create", "converge"}
                   PROVE  /\ Writing(held, todo[r], request[r].desired)
                          /\ c.op # "RemoveScope" /\ (c.op = "AddScope" <=> held = None)
                          /\ next.tolerates \subseteq {"alreadyExists", "notFound"}
      OBVIOUS
    <2>2. Writing(held, todo[r], request[r].desired)
      BY <2>1 DEF PInv, WritesOnTheWay
    <2>3. /\ next.do.op \in WritingOps
          /\ next.tolerates \subseteq {"alreadyExists", "notFound"}
          /\ next.do.op = "AddScope" <=> held = None
      BY <1>1, <1>8, <2>2 DEF Writing, StartsAnew, Does
    <2>4. c.op # "RemoveScope" /\ (c.op = "AddScope" <=> next.do.op = "AddScope")
      BY <1>8, <2>3 DEF BatchOps, WritingOps
    <2>5. QED
      BY <2>2, <2>3, <2>4
  <1>10. pc[r] = "delete" =>
          /\ Deleting(server, s, todo[r])
          /\ c.op \in {"RemoveFromRelationship", "RemoveRelationship",
                       "RemoveExclusion", "RemoveScope"}
          /\ c.op # "RemoveExclusion" => next.tolerates = {}
          /\ c.op = "RemoveScope" => RelationshipsOf(server, s) = {}
    <2>1. SUFFICES ASSUME pc[r] = "delete"
                   PROVE  /\ Deleting(server, s, todo[r])
                          /\ c.op \in {"RemoveFromRelationship", "RemoveRelationship",
                                       "RemoveExclusion", "RemoveScope"}
                          /\ c.op # "RemoveExclusion" => next.tolerates = {}
                          /\ c.op = "RemoveScope" => RelationshipsOf(server, s) = {}
      OBVIOUS
    <2>2. Deleting(server, s, todo[r])
      BY <2>1 DEF PInv, DeletesOnTheWay
    <2>3. /\ next.do.op \in DeletingOps
          /\ next.do.op # "RemoveExclusions" => next.tolerates = {}
      BY <1>8, <2>2 DEF Deleting
    <2>4. next.do.op # "CleanupRelationship"
      BY <1>2 DEF Issuable, BatchOps, LookupOps
    <2>5. /\ c.op \in {"RemoveFromRelationship", "RemoveRelationship",
                       "RemoveExclusion", "RemoveScope"}
          /\ c.op # "RemoveExclusion" => next.do.op = c.op
      BY <1>8, <2>3, <2>4 DEF DeletingOps, BatchOps
    <2>6. c.op = "RemoveScope" => RelationshipsOf(server, s) = {}
      BY <2>2, <2>5 DEF Deleting, Does
    <2>7. QED
      BY <2>2, <2>3, <2>5, <2>6
  <1> HIDE DEF c, rest, s, held, next
  <1>11. c.op = "RemoveScope" => RelationshipsOf(server, s) = {}
    BY <1>1, <1>9, <1>10
  <1>12. /\ OneRelationship(server') /\ AllMembersExist(server') /\ Elsewhere(scope(r))
    BY <1>4, <1>5, <1>7, <1>11, TookKeeps DEF Elsewhere, s
  <1>13. CASE outcome \in {"ok"} \cup next.tolerates
    <2>1. Proceed(r, pc[r], rest)
      BY <1>7, <1>13 DEF Conclude, next
    <2>2. pc[r] \in {"create", "converge"} =>
            Writing(server'.scopes[s], rest, request[r].desired)
      <3>1. SUFFICES ASSUME pc[r] \in {"create", "converge"}
                     PROVE  Writing(server'.scopes[s], rest, request[r].desired)
        OBVIOUS
      <3>2. outcome \in {"ok", "alreadyExists", "notFound"}
        BY <1>9, <1>13, <3>1
      <3>3. c.op = "AddScope" <=> ~Exists(server, s)
        BY <1>9, <3>1 DEF Exists, held
      <3>4. /\ c.op = "AddScope" => server'.scopes[s] = Fresh(c.arg)
            /\ c.op # "AddScope" => server'.scopes[s] = Applied(held, c)
        BY <1>4, <1>5, <1>7, <1>9, <3>1, <3>2, <3>3, TookWrites DEF held
      <3>5. QED
        BY <1>1, <1>4, <1>5, <1>6, <1>9, <3>1, <3>4, WritingAdvances
    <2>3. pc[r] = "delete" => Deleting(server', s, rest)
      <3>1. SUFFICES ASSUME pc[r] = "delete" PROVE Deleting(server', s, rest)
        OBVIOUS
      <3>2. c.op # "RemoveExclusion" => outcome = "ok"
        BY <1>10, <1>13, <3>1
      <3>3. /\ RelationshipsOf(server', s) \subseteq RelationshipsOf(server, s)
            /\ c.op = "RemoveFromRelationship" => c.arg \notin RelationshipsOf(server', s)
            /\ c.op = "RemoveScope" => ~Exists(server', s)
            /\ Exists(server', s) => Exists(server, s)
        BY <1>4, <1>5, <1>7, <1>10, <3>1, <3>2, TookDeletes
      <3>4. QED
        BY <1>1, <1>4, <1>5, <1>6, <1>10, <3>1, <3>3, DeletingAdvances
    <2>4. QED
      BY <1>1, <1>3, <1>12, <2>1, <2>2, <2>3, ProceedPInv DEF s, PInv, StagesByVerb
  <1>14. CASE outcome \notin {"ok"} \cup next.tolerates
    <2>1. Answer(r, ErrorStatus(outcome), None)
      BY <1>7, <1>14 DEF Conclude, next
    <2>2. ErrorStatus(outcome) # "ok"
      BY <1>14 DEF ErrorStatus, Outcomes, CmdletErrors
    <2>3. QED
      BY <1>1, <1>3, <1>12, <2>1, <2>2, AnswerPInv
  <1>15. QED
    BY <1>13, <1>14

-----------------------------------------------------------------------------
(* What is promised at the start of a plan, and kept at its end *)

\* A plan made for the scope as it was assembled leads on from the scope itself.
LEMMA AssembledLeads ==
    ASSUME NEW srv \in Server, NEW s \in Scopes, Reading(srv, s) = "ok",
           NEW plan \in Seq(Step), NEW desired,
           \A step \in Ahead(plan) :
             /\ step.do.op \in WritingOps \ {"AddScope"}
             /\ step.tolerates \subseteq {"alreadyExists", "notFound"},
           Towards(Assembled(srv, s), plan, desired)
    PROVE  Writing(srv.scopes[s], plan, desired)
  <1> DEFINE held == srv.scopes[s]
             current == Assembled(srv, s)
  <1>1. held # None
    BY DEF Reading
  <1>2. plan # << >> => Ahead(plan) = {Head(plan)} \cup Ahead(Tail(plan))
    BY AheadHead
  <1>3. ~StartsAnew(plan)
    BY <1>2 DEF StartsAnew, Does
  <1>4. /\ current.mask = held.mask /\ current.range = held.range
        /\ current.params = held.params /\ current.dns = held.dns
        /\ current.gateway = held.gateway /\ current.next = held.next
        /\ current.file = held.file /\ current.exclusions = held.exclusions
    BY DEF Assembled
  <1> HIDE DEF current, held
  <1>5. Towards(current, plan, desired)
    BY DEF current
  <1>6. Towards(held, plan, desired)
    <2>1. held.mask = desired.mask /\ TowardsRange(held, plan, desired)
      BY <1>4, <1>5 DEF Towards, TowardsRange
    <2>2. TowardsParams(held, plan, desired) /\ TowardsOptions(held, plan, desired)
      BY <1>4, <1>5 DEF Towards, TowardsParams, TowardsOptions
    <2>3. TowardsBoot(held, plan, desired) /\ TowardsExclusions(held, plan, desired)
      BY <1>4, <1>5 DEF Towards, TowardsBoot, TowardsExclusions
    <2>4. QED
      BY <2>1, <2>2, <2>3 DEF Towards
  <1>7. Writing(held, plan, desired)
    BY <1>1, <1>2, <1>3, <1>6 DEF Writing, Base, Does
  <1>8. QED
    BY <1>7 DEF held

\* With no step left, a scope that can be read is as the request asked for.
LEMMA WrittenAsAsked ==
    ASSUME NEW srv \in Server, NEW s \in Scopes, Reading(srv, s) = "ok",
           NEW desired \in Payload, Writing(srv.scopes[s], << >>, desired)
    PROVE  [Assembled(srv, s) EXCEPT !.failover = None] =
              [desired EXCEPT !.failover = None]
  <1> DEFINE held == srv.scopes[s]
             current == Assembled(srv, s)
  <1>1. Towards(held, << >>, desired)
    BY DEF Writing, Base, StartsAnew
  <1>2. held.mask = desired.mask /\ held.range = desired.range
    BY <1>1, AheadEmpty DEF Towards, TowardsRange
  <1>3. /\ held.params = desired.params
        /\ held.dns = desired.dns /\ held.gateway = desired.gateway
    BY <1>1, AheadEmpty DEF Towards, TowardsParams, TowardsOptions
  <1>4. held.next = desired.next /\ held.file = desired.file
    BY <1>1, AheadEmpty DEF Towards, TowardsBoot
  <1>5. held.exclusions = desired.exclusions
    <2>1. /\ desired.exclusions \ held.exclusions = {}
          /\ held.exclusions \ desired.exclusions = {}
      BY <1>1, AheadEmpty DEF Towards, TowardsExclusions
    <2>2. held \in ScopeConfig
      BY DEF Reading, Server
    <2>3. QED
      BY <2>1, <2>2 DEF ScopeConfig, Payload
  <1>6. /\ current \in Payload
        /\ current.mask = held.mask /\ current.range = held.range
        /\ current.params = held.params /\ current.dns = held.dns
        /\ current.gateway = held.gateway /\ current.next = held.next
        /\ current.file = held.file /\ current.exclusions = held.exclusions
    BY AssembledType DEF Assembled
  <1> HIDE DEF current, held
  <1>7. [current EXCEPT !.failover = None] = [desired EXCEPT !.failover = None]
    BY <1>2, <1>3, <1>4, <1>5, <1>6 DEF Payload
  <1>8. QED
    BY <1>7 DEF current

\* A plan made to delete the scope as it was assembled leads to its end.
LEMMA DeletePlanLeads ==
    ASSUME NEW srv \in Server, NEW s \in Scopes, Reading(srv, s) = "ok",
           OneRelationship(srv)
    PROVE  Deleting(srv, s, delete_plan(Assembled(srv, s)))
  <1> DEFINE current == Assembled(srv, s)
             plan == delete_plan(current)
  <1>1. current \in Payload
    BY AssembledType
  <1>2. current.failover = failover_of(srv, s)
    BY DEF Assembled
  <1> HIDE DEF current
  <1>3. /\ \A step \in Ahead(plan) :
             /\ step.do.op \in DeletingOps
             /\ step.do.op # "RemoveExclusions" => step.tolerates = {}
        /\ \E step \in Ahead(plan) : Does(step, "RemoveScope")
        /\ current.failover # None =>
             /\ plan # << >> /\ Does(Head(plan), "RemoveFromRelationship")
             /\ Head(plan).do.arg = current.failover.name
    BY <1>1, DeleteLeads
  <1> HIDE DEF plan
  <1>4. CASE RelationshipsOf(srv, s) = {}
    BY <1>3, <1>4 DEF Deleting, plan, current
  <1>5. CASE RelationshipsOf(srv, s) # {}
    <2> DEFINE n == CHOOSE n \in RelationshipsOf(srv, s) : TRUE
    <2>1. n \in RelationshipsOf(srv, s)
      BY <1>5
    <2>2. RelationshipsOf(srv, s) = {n}
      BY <2>1 DEF OneRelationship
    <2>3. failover_of(srv, s) =
            [name |-> n, peer |-> srv.rels[n].peer, tuning |-> srv.rels[n].tuning]
      BY <1>5 DEF failover_of
    <2> HIDE DEF n
    <2>4. current.failover \in Failover \cup {None}
      BY <1>1 DEF Payload
    <2>5. current.failover.name = n
      BY <1>2, <2>3
    <2>6. current.failover # None
      <3>1. n \in Names /\ srv.rels[n] \in Relationship
        BY <2>1 DEF RelationshipsOf, Server
      <3>2. failover_of(srv, s) \in Failover
        BY <2>3, <3>1 DEF Relationship, Failover
      <3>3. QED
        BY <1>2, <3>2, AbsentIsNoValue
    <2>7. QED
      BY <1>3, <2>2, <2>5, <2>6 DEF Deleting, plan, current
  <1>6. QED
    BY <1>4, <1>5

\* A request is answered, or goes on, with the server unchanged.
LEMMA QuietPInv ==
    ASSUME PInv, IInv', NEW r \in Requests, server' = server, request' = request,
           \/ \E status, body : Answer(r, status, body) /\ status # "ok"
           \/ /\ pc[r] \in Locked
              /\ Proceed(r, "assemble", << >>)
    PROVE  PInv'
  <1>1. Elsewhere(scope(r)) /\ OneRelationship(server') /\ AllMembersExist(server')
    BY DEF Elsewhere, PInv
  <1>2. ASSUME NEW status, NEW body, Answer(r, status, body), status # "ok"
        PROVE  PInv'
    BY <1>1, <1>2, AnswerPInv
  <1>3. CASE pc[r] \in Locked /\ Proceed(r, "assemble", << >>)
    <2>1. "assemble" \in Locked
      BY DEF Locked
    <2>2. QED
      BY <1>1, <1>3, <2>1, ProceedPInv
  <1>4. QED
    BY <1>2, <1>3

\* What is answered to a read that fails is not a 200.
LEMMA UnreadableAnswers ==
    ASSUME NEW r \in Requests, NEW reading \in {"missing", "conflict", "invalid"},
           Unreadable(r, reading)
    PROVE  \E status, body : Answer(r, status, body) /\ status \notin {"ok", "gone"}
  <1> DEFINE status == CASE reading = "missing" -> "not_found"
                         [] reading = "conflict" -> "conflict"
                         [] reading = "invalid" -> "error"
  <1>1. Answer(r, status, None)
    BY DEF Unreadable
  <1>2. status \notin {"ok", "gone"}
    OBVIOUS
  <1> HIDE DEF status
  <1>3. QED
    BY <1>1, <1>2

\* Reads start plans that lead to what was asked, and end them once it is there.
LEMMA ReadPInv ==
    ASSUME PInv, IInv', NEW r \in Requests,
           \/ get_scope(r) \/ scope_exists(r) \/ assemble_to_converge(r)
           \/ assemble_to_delete(r) \/ respond(r) \/ respond_deleted(r)
    PROVE  PInv'
  <1> DEFINE s == scope(r)
             current == Assembled(server, s)
             desired == request[r].desired
             reading == Reading(server, s)
             \* The answers and the reads of an existing scope that begin no plan.
             Quiet == \/ \E status, body : Answer(r, status, body) /\ status # "ok"
                      \/ pc[r] \in Locked /\ Proceed(r, "assemble", << >>)
  <1>1. server' = server /\ request' = request
    BY DEF get_scope, scope_exists, assemble_to_converge, assemble_to_delete,
           respond, respond_deleted
  <1>2. Quiet => PInv'
    BY <1>1, QuietPInv
  <1>3. reading \in {"missing", "conflict", "invalid", "ok"}
    BY ReadingCases
  <1>4. reading # "ok" /\ Unreadable(r, reading) => Quiet
    BY <1>3, UnreadableAnswers
  <1>5. /\ Elsewhere(scope(r)) /\ OneRelationship(server') /\ AllMembersExist(server')
        /\ OneRelationship(server)
    BY <1>1 DEF Elsewhere, PInv
  <1>6. pc[r] \in Locked =>
          /\ s \in Scopes /\ server \in Server
          /\ verb(r) \in {"POST", "PUT", "DELETE"}
          /\ verb(r) # "DELETE" => desired \in Payload /\ Valid(desired)
    BY HolderFacts DEF PInv
  <1>7. {"exists", "assemble", "create", "converge", "delete"} = Locked
    BY DEF Locked
  <1>8. ASSUME NEW stage \in {"create", "converge"}, NEW steps,
               pc[r] \in Locked, verb(r) # "DELETE", Proceed(r, stage, steps),
               Writing(server.scopes[s], steps, desired)
        PROVE  PInv'
    <2>1. stage \in Locked
      BY <1>7
    <2>2. Writing(server'.scopes[scope(r)], steps, request[r].desired)
      BY <1>1, <1>8
    <2>3. stage # "delete"
      OBVIOUS
    <2>4. QED
      BY <1>1, <1>5, <1>8, <2>1, <2>2, <2>3, ProceedPInv
  <1> HIDE DEF Quiet, s, current, desired, reading
  <1>9. CASE get_scope(r)
    <2>1. \/ pc[r] = "read" /\ Answer(r, "ok", current)
          \/ reading # "ok" /\ Unreadable(r, reading)
      BY <1>9 DEF get_scope, s, current, reading
    <2>2. pc[r] = "read" => verb(r) = "GET"
      BY DEF PInv, StagesByVerb
    <2>3. QED
      BY <1>1, <1>2, <1>4, <1>5, <2>1, <2>2, AnswerPInv
  <1>10. CASE scope_exists(r)
    <2>1. /\ pc[r] \in Locked
          /\ \/ Proceed(r, "assemble", << >>)
             \/ /\ ~Exists(server, s) /\ verb(r) = "POST"
                /\ Proceed(r, "create", create_plan(desired))
             \/ Answer(r, "gone", None)
      BY <1>7, <1>10 DEF scope_exists, desired, s
    <2>2. CASE /\ ~Exists(server, s) /\ verb(r) = "POST"
               /\ Proceed(r, "create", create_plan(desired))
      <3>1. Writing(None, create_plan(desired), desired)
        BY <1>6, <2>1, <2>2, CreateLeads
      <3>2. server.scopes[s] = None
        BY <2>2 DEF Exists
      <3>3. Writing(server.scopes[s], create_plan(desired), desired)
        BY <3>1, <3>2
      <3>4. QED
        BY <1>8, <2>1, <2>2, <3>3
    <2>3. CASE Proceed(r, "assemble", << >>) \/ Answer(r, "gone", None)
      BY <1>2, <2>1, <2>3 DEF Quiet
    <2>4. QED
      BY <2>1, <2>2, <2>3
  <1>11. CASE assemble_to_converge(r)
    <2>1. /\ pc[r] \in Locked /\ verb(r) # "DELETE"
          /\ \/ reading # "ok" /\ Unreadable(r, reading)
             \/ Answer(r, "immutable_field", None)
             \/ /\ reading = "ok" /\ current.mask = desired.mask
                /\ Proceed(r, "converge", converge_plan(current, desired))
      BY <1>7, <1>11 DEF assemble_to_converge, s, current, desired, reading
    <2>2. CASE /\ reading = "ok" /\ current.mask = desired.mask
               /\ Proceed(r, "converge", converge_plan(current, desired))
      <3> DEFINE plan == converge_plan(current, desired)
      <3>1. current \in Payload /\ desired \in Payload /\ Valid(desired)
        BY <1>6, <2>1, <2>2, AssembledType DEF current, reading
      <3>2. plan \in Seq(Step)
        BY <3>1, PlanTypes
      <3>3. /\ \A step \in Ahead(plan) :
                 /\ step.do.op \in WritingOps \ {"AddScope"}
                 /\ step.tolerates \subseteq {"alreadyExists", "notFound"}
            /\ Towards(current, plan, desired)
        BY <2>2, <3>1, ConvergeLeads
      <3> HIDE DEF plan
      <3>4. Writing(server.scopes[s], plan, desired)
        BY <1>6, <2>1, <2>2, <3>2, <3>3, AssembledLeads DEF current, reading
      <3>5. QED
        BY <1>8, <2>1, <2>2, <3>4 DEF plan
    <2>3. CASE (reading # "ok" /\ Unreadable(r, reading))
                 \/ Answer(r, "immutable_field", None)
      BY <1>2, <1>4, <2>3 DEF Quiet
    <2>4. QED
      BY <2>1, <2>2, <2>3
  <1>12. CASE assemble_to_delete(r)
    <2>1. /\ pc[r] \in Locked
          /\ \/ reading = "ok" /\ Proceed(r, "delete", delete_plan(current))
             \/ Answer(r, "gone", None)
             \/ reading # "ok" /\ Unreadable(r, reading)
      BY <1>3, <1>7, <1>12 DEF assemble_to_delete, s, current, reading
    <2>2. CASE reading = "ok" /\ Proceed(r, "delete", delete_plan(current))
      <3>1. Deleting(server, s, delete_plan(current))
        BY <1>5, <1>6, <2>1, <2>2, DeletePlanLeads DEF current, reading
      <3>2. Deleting(server', scope(r), delete_plan(current))
        BY <1>1, <3>1 DEF s
      <3>3. "delete" \in Locked
        BY <1>7
      <3>4. QED
        BY <1>1, <1>5, <2>1, <2>2, <3>2, <3>3, ProceedPInv
    <2>3. CASE Answer(r, "gone", None) \/ (reading # "ok" /\ Unreadable(r, reading))
      BY <1>2, <1>4, <2>3 DEF Quiet
    <2>4. QED
      BY <2>1, <2>2, <2>3
  <1>13. CASE respond(r)
    <2>1. /\ pc[r] \in {"create", "converge"} /\ todo[r] = << >>
          /\ \/ reading = "ok" /\ Answer(r, "ok", current)
             \/ Answer(r, "error", None)
             \/ reading # "ok" /\ Unreadable(r, reading)
      BY <1>13 DEF respond, s, current, reading
    <2>2. CASE reading = "ok" /\ Answer(r, "ok", current)
      <3>1. pc[r] \in Locked /\ verb(r) # "DELETE"
        BY <1>7, <2>1 DEF PInv, StagesByVerb
      <3>2. Writing(server.scopes[s], << >>, desired)
        BY <2>1 DEF PInv, WritesOnTheWay, s, desired
      <3>3. [current EXCEPT !.failover = None] = [desired EXCEPT !.failover = None]
        BY <1>6, <2>2, <3>1, <3>2, WrittenAsAsked DEF current, reading
      <3>4. QED
        BY <1>1, <1>5, <2>2, <3>3, AnswerPInv DEF desired
    <2>3. CASE Answer(r, "error", None) \/ (reading # "ok" /\ Unreadable(r, reading))
      BY <1>2, <1>4, <2>3 DEF Quiet
    <2>4. QED
      BY <2>1, <2>2, <2>3
  <1>14. CASE respond_deleted(r)
    BY <1>2, <1>14 DEF respond_deleted, Quiet
  <1>15. QED
    BY <1>9, <1>10, <1>11, <1>12, <1>13, <1>14

\* A request arrives, or takes the lock: it has been promised nothing yet.
LEMMA ArrivalPInv ==
    ASSUME PInv, IInv', NEW r \in Requests, Client(r) \/ lock(r)
    PROVE  PInv'
  <1>1. /\ pc[r] \in {"idle", "locking"} /\ server' = server
        /\ todo' = todo /\ reply' = reply
        /\ \E stage \in {"read", "locking", "assemble", "exists"} :
             /\ pc' = [pc EXCEPT ![r] = stage]
             /\ stage = "read" => pc[r] = "idle"
        /\ \/ pc[r] = "locking" /\ request' = request
           \/ \E q : request' = [request EXCEPT ![r] = q]
    <2>1. CASE Client(r)
      BY <2>1 DEF Client, Submit
    <2>2. CASE lock(r)
      BY <2>2 DEF lock
    <2>3. QED
      BY <2>1, <2>2
  <1>2. pc \in [Requests -> Stages] /\ request \in [Requests -> Request \cup {None}]
    BY DEF PInv, IInv, Control, ControlType
  <1>3. pc'[r] \in {"read", "locking", "assemble", "exists"}
    BY <1>1, <1>2
  <1>4. \A q \in Requests \ {r} : pc'[q] = pc[q] /\ request'[q] = request[q]
    BY <1>1, <1>2
  <1>5. reply[r] = None
    BY <1>1 DEF PInv, RepliedIsDone
  <1>6. WritesOnTheWay' /\ DeletesOnTheWay'
    BY <1>1, <1>3, <1>4 DEF PInv, WritesOnTheWay, DeletesOnTheWay, scope
  <1>7. RepliedIsDone' /\ RepliesAsAsked'
    BY <1>1, <1>3, <1>4, <1>5 DEF PInv, RepliedIsDone, RepliesAsAsked, verb
  <1>8. pc'[r] = "read" => request'[r].verb = "GET"
    <2>1. CASE Client(r)
      <3>1. PICK v \in Verbs, s \in Scopes :
              \E p \in IF v \in {"POST", "PUT"} THEN Payloads ELSE {None} :
                Submit(r, v, s, p)
        BY <2>1 DEF Client
      <3>2. PICK p \in IF v \in {"POST", "PUT"} THEN Payloads ELSE {None} :
              Submit(r, v, s, p)
        BY <3>1
      <3>3. request'[r] = [verb |-> v, scope |-> s, desired |-> p]
        BY <1>2, <3>2 DEF Submit
      <3>4. v # "GET" => pc'[r] = "locking"
        BY <1>2, <3>2 DEF Submit
      <3>5. QED
        BY <3>3, <3>4
    <2>2. CASE lock(r)
      BY <1>2, <2>2 DEF lock
    <2>3. QED
      BY <2>1, <2>2
  <1>9. StagesByVerb'
    BY <1>3, <1>4, <1>8 DEF PInv, StagesByVerb, verb
  <1>10. QED
    BY <1>1, <1>6, <1>7, <1>9 DEF PInv

\* A read that fails is answered with an error.
LEMMA FailReadPInv ==
    ASSUME PInv, IInv', NEW r \in Requests, FailRead(r)
    PROVE  PInv'
  <1>1. PICK kind \in {"failed", "timeout", "broken"} : Answer(r, ErrorStatus(kind), None)
    BY DEF FailRead
  <1>2. server' = server /\ request' = request
    BY DEF FailRead
  <1>3. ErrorStatus(kind) # "ok"
    BY DEF ErrorStatus
  <1>4. QED
    BY <1>1, <1>2, <1>3, QuietPInv

\* After a restart nothing is on its way, and nothing more is answered.
LEMMA CrashPInv ==
    ASSUME PInv, IInv', Crash
    PROVE  PInv'
  <1>1. /\ pc' = [r \in Requests |-> IF pc[r] \notin {"idle", "done"}
                                     THEN "done" ELSE pc[r]]
        /\ UNCHANGED <<server, request, reply>>
    BY DEF Crash
  <1>2. \A r \in Requests : pc'[r] \in {"idle", "done"} /\ (pc[r] = "done" => pc'[r] = "done")
    BY <1>1
  <1>3. WritesOnTheWay' /\ DeletesOnTheWay' /\ StagesByVerb'
    BY <1>2 DEF WritesOnTheWay, DeletesOnTheWay, StagesByVerb
  <1>4. RepliedIsDone' /\ RepliesAsAsked'
    BY <1>1, <1>2 DEF PInv, RepliedIsDone, RepliesAsAsked, verb
  <1>5. QED
    BY <1>1, <1>3, <1>4 DEF PInv

\* PInv holds at the start.
LEMMA InitPInv == Init => PInv
  <1> SUFFICES ASSUME Init PROVE PInv
    OBVIOUS
  <1>1. PICK f \in [Scopes -> Payloads \cup {None}] : server = Laid(f)
    BY DEF Init
  <1>2. \A n \in Names, s \in Scopes : n \in RelationshipsOf(server, s) =>
          f[s] # None /\ f[s].failover # None /\ f[s].failover.name = n
    <2>1. SUFFICES ASSUME NEW n \in Names, NEW s \in Scopes,
                          n \in RelationshipsOf(server, s)
                   PROVE  f[s] # None /\ f[s].failover # None /\ f[s].failover.name = n
      OBVIOUS
    <2>2. server.rels[n] # None /\ s \in server.rels[n].members
      BY <2>1 DEF RelationshipsOf
    <2> DEFINE w == CHOOSE w \in Joining(f, n) : TRUE
    <2>3. server.rels[n] = IF Joining(f, n) = {} THEN None
                           ELSE [peer |-> f[w].failover.peer,
                                 tuning |-> f[w].failover.tuning,
                                 members |-> Joining(f, n)]
      BY <1>1 DEF Laid
    <2> HIDE DEF w
    <2>4. s \in Joining(f, n)
      BY <2>2, <2>3
    <2>5. QED
      BY <2>4 DEF Joining
  <1>3. OneRelationship(server)
    BY <1>2 DEF OneRelationship, RelationshipsOf
  <1>4. AllMembersExist(server)
    <2>1. SUFFICES ASSUME NEW s \in Scopes, NEW n \in RelationshipsOf(server, s)
                   PROVE  Exists(server, s)
      BY DEF AllMembersExist
    <2>2. f[s] # None /\ f[s] \in Payload
      BY <1>2, ServiceAssumption DEF RelationshipsOf
    <2>3. server.scopes[s] = Lay(f[s])
      BY <1>1, <2>2 DEF Laid
    <2>4. Lay(f[s]) \in ScopeConfig
      BY <2>2 DEF Lay, Payload, ScopeConfig
    <2>5. QED
      BY <2>3, <2>4, AbsentIsNoValue DEF Exists
  <1>5. /\ WritesOnTheWay /\ DeletesOnTheWay /\ StagesByVerb
        /\ RepliedIsDone /\ RepliesAsAsked
    BY DEF Init, WritesOnTheWay, DeletesOnTheWay, StagesByVerb, RepliedIsDone,
           RepliesAsAsked
  <1>6. QED
    BY <1>3, <1>4, <1>5, InitIInv DEF PInv

\* Every step of Next keeps PInv.
LEMMA NextPInv == PInv /\ [Next]_vars => PInv'
  <1> SUFFICES ASSUME PInv, [Next]_vars PROVE PInv'
    OBVIOUS
  <1>1. IInv'
    BY NextIInv, SpecIsLate DEF PInv
  <1>2. ASSUME NEW r \in Requests, Client(r) PROVE PInv'
    BY <1>1, <1>2, ArrivalPInv
  <1>3. ASSUME NEW r \in Requests, Handle(r) PROVE PInv'
    BY <1>1, <1>3, ArrivalPInv, ReadPInv, ScriptPInv, LookupPInv, FailReadPInv DEF Handle
  <1>4. CASE Crash
    BY <1>1, <1>4, CrashPInv
  <1>5. CASE UNCHANGED vars
    BY <1>1, <1>5 DEF vars, PInv, WritesOnTheWay, DeletesOnTheWay, StagesByVerb,
                      RepliedIsDone, RepliesAsAsked, scope, verb
  <1>6. QED
    BY <1>2, <1>3, <1>4, <1>5 DEF Next

-----------------------------------------------------------------------------
(* The theorems *)

\* Whatever fails, short of a script that outlives its request, a 200 to POST or
\* PUT is only given for a scope that is, field by field, as it was asked for:
\* no error that create_scope or _converge_scope tolerates hides a write that
\* was not made, and a retried script ends where one run of it does.
THEOREM OkMeansAsAsked == Spec => []ConfigIsRequest
  <1>1. PInv => ConfigIsRequest
    BY DEF PInv, RepliesAsAsked, ConfigIsRequest, Answered
  <1>2. QED
    BY <1>1, InitPInv, NextPInv, PTL DEF Spec

\* Wherever delete_scope is interrupted, by a failure or a restart, no failover
\* relationship is left listing a scope that is gone.
THEOREM NoGhostMembers == Spec => []MembersExist
  <1>1. PInv => MembersExist
    <2>1. ASSUME PInv, NEW n \in Names, server.rels[n] # None,
                 NEW s \in server.rels[n].members
          PROVE  Exists(server, s)
      <3>1. s \in Scopes
        BY <2>1 DEF PInv, IInv, DataType, Server, Relationship
      <3>2. n \in RelationshipsOf(server, s)
        BY <2>1 DEF RelationshipsOf
      <3>3. QED
        BY <2>1, <3>1, <3>2 DEF PInv, AllMembersExist
    <2>2. QED
      BY <2>1 DEF MembersExist
  <1>2. QED
    BY <1>1, InitPInv, NextPInv, PTL DEF Spec

\* An answer gives one request its reply.
LEMMA AnswerReplies ==
    ASSUME IInv, NEW r \in Requests, NEW status, NEW body, Answer(r, status, body)
    PROVE  /\ reply'[r] = [status |-> status, body |-> body]
           /\ \A q \in Requests \ {r} : reply'[q] = reply[q]
  BY DEF IInv, Control, ControlType, Answer

\* The status of an error is neither a 200 nor a 204.
LEMMA ErrorsAreErrors ==
    ASSUME NEW outcome \in (Outcomes \ {"ok"}) \cup {"timeout", "broken"}
    PROVE  ErrorStatus(outcome) \notin {"ok", "gone"}
  BY DEF Outcomes, CmdletErrors, ErrorStatus

\* A request is answered 204 by itself, and only when the scope is gone.
LEMMA HandleGone ==
    ASSUME PInv, NEW r \in Requests, Handle(r), pc[r] # "done"
    PROVE  /\ \A q \in Requests \ {r} : reply'[q] = reply[q]
           /\ reply'[r] # None /\ reply'[r].status = "gone" =>
                /\ ~Exists(server', scope(r))
                /\ RelationshipsOf(server', scope(r)) = {}
  <1> DEFINE s == scope(r)
             Gone == ~Exists(server', s) /\ RelationshipsOf(server', s) = {}
             Goal == /\ \A q \in Requests \ {r} : reply'[q] = reply[q]
                     /\ reply'[r] # None /\ reply'[r].status = "gone" => Gone
  <1> SUFFICES Goal
    OBVIOUS
  <1>1. IInv /\ reply[r] = None
    BY DEF PInv, RepliedIsDone
  <1> HIDE DEF Gone
  <1>2. reply' = reply => Goal
    BY <1>1
  <1>3. \A stage, steps : Proceed(r, stage, steps) => Goal
    BY <1>2 DEF Proceed
  <1>4. ASSUME NEW status, NEW body, Answer(r, status, body), status # "gone" \/ Gone
        PROVE  Goal
    <2>1. /\ reply'[r] = [status |-> status, body |-> body]
          /\ \A q \in Requests \ {r} : reply'[q] = reply[q]
      BY <1>1, <1>4, AnswerReplies
    <2>2. QED
      BY <1>4, <2>1
  <1>5. \A body : Answer(r, "gone", body) /\ Gone => Goal
    BY <1>4
  <1>6. \A reading : reading # "ok" /\ reading = Reading(server, s)
                       /\ Unreadable(r, reading) => Goal
    BY <1>4, ReadingCases, UnreadableAnswers
  <1>7. ASSUME pc[r] \in Locked, ~Exists(server, s), server' = server
        PROVE  Gone
    BY <1>1, <1>7, HolderFacts DEF PInv, AllMembersExist, Gone
  <1> HIDE DEF Goal, s
  <1>8. CASE lock(r)
    BY <1>2, <1>8 DEF lock
  <1>9. CASE get_scope(r)
    <2>1. \/ Answer(r, "ok", Assembled(server, s))
          \/ Reading(server, s) # "ok" /\ Unreadable(r, Reading(server, s))
      BY <1>9 DEF get_scope, s
    <2>2. QED
      BY <1>4, <1>6, <2>1
  <1>10. CASE scope_exists(r)
    <2>1. /\ pc[r] \in Locked /\ server' = server
          /\ \/ \E stage, steps : Proceed(r, stage, steps)
             \/ ~Exists(server, s) /\ Answer(r, "gone", None)
      BY <1>10 DEF scope_exists, Locked, s
    <2>2. QED
      BY <1>3, <1>5, <1>7, <2>1
  <1>11. CASE assemble_to_converge(r)
    <2>1. \/ Reading(server, s) # "ok" /\ Unreadable(r, Reading(server, s))
          \/ Answer(r, "immutable_field", None)
          \/ \E steps : Proceed(r, "converge", steps)
      BY <1>11 DEF assemble_to_converge, s
    <2>2. QED
      BY <1>3, <1>4, <1>6, <2>1
  <1>12. CASE assemble_to_delete(r)
    <2>1. /\ pc[r] \in Locked /\ server' = server
          /\ \/ \E steps : Proceed(r, "delete", steps)
             \/ Reading(server, s) = "missing" /\ Answer(r, "gone", None)
             \/ Reading(server, s) # "ok" /\ Unreadable(r, Reading(server, s))
      BY <1>12, ReadingCases DEF assemble_to_delete, Locked, s
    <2>2. Reading(server, s) = "missing" => ~Exists(server, s)
      BY DEF Reading, Exists
    <2>3. QED
      BY <1>3, <1>5, <1>6, <1>7, <2>1, <2>2
  <1>13. CASE _run_ps(r) \/ FailCmdlet(r) \/ Rerun(r)
    <2>1. PICK c \in Issuable(todo[r]), outcome \in Outcomes \cup {"timeout", "broken"} :
            Conclude(r, c.rest, outcome)
      BY <1>1, <1>13, ScriptEffect
    <2>2. \/ Proceed(r, pc[r], c.rest)
          \/ outcome # "ok" /\ Answer(r, ErrorStatus(outcome), None)
      BY <2>1 DEF Conclude
    <2>3. QED
      BY <1>3, <1>4, <2>2, ErrorsAreErrors
  <1>14. CASE _fetch_failover_by_name(r)
    BY <1>1, <1>3, <1>14, LookupAdvances
  <1>15. CASE respond(r)
    <2>1. \/ Answer(r, "ok", Assembled(server, s))
          \/ Answer(r, "error", None)
          \/ Reading(server, s) # "ok" /\ Unreadable(r, Reading(server, s))
      BY <1>15 DEF respond, s
    <2>2. QED
      BY <1>4, <1>6, <2>1
  <1>16. CASE respond_deleted(r)
    <2>1. /\ pc[r] = "delete" /\ todo[r] = << >> /\ server' = server
          /\ Answer(r, "gone", None)
      BY <1>16 DEF respond_deleted
    <2>2. Deleting(server, s, << >>)
      BY <2>1 DEF PInv, DeletesOnTheWay, s
    <2>3. Gone
      BY <2>1, <2>2, AheadEmpty DEF Deleting, Gone
    <2>4. QED
      BY <1>5, <2>1, <2>3
  <1>17. CASE FailRead(r)
    <2>1. PICK kind \in {"failed", "timeout", "broken"} :
            Answer(r, ErrorStatus(kind), None)
      BY <1>17 DEF FailRead
    <2>2. ErrorStatus(kind) # "gone"
      BY DEF ErrorStatus
    <2>3. QED
      BY <1>4, <2>1, <2>2
  <1>18. QED
    BY <1>8, <1>9, <1>10, <1>11, <1>12, <1>13, <1>14, <1>15, <1>16, <1>17 DEF Handle

\* A 204 to DELETE is given when the scope is gone and no relationship lists it,
\* by the attempt that removed it or by one that finds it removed.
THEOREM GoneMeansGone == Spec => DeletedMeansGone
  <1> DEFINE Promise == \A r \in Requests : Answers_now(r, "gone") =>
                          /\ ~Exists(server', scope(r))
                          /\ RelationshipsOf(server', scope(r)) = {}
  <1>1. PInv /\ [Next]_vars => [Promise]_vars
    <2> SUFFICES ASSUME PInv, Next PROVE Promise
      OBVIOUS
    <2> SUFFICES ASSUME NEW r \in Requests, Answers_now(r, "gone")
                 PROVE  /\ ~Exists(server', scope(r))
                        /\ RelationshipsOf(server', scope(r)) = {}
      OBVIOUS
    <2>1. pc[r] # "done" /\ reply'[r] # None /\ reply'[r].status = "gone"
      BY DEF Answers_now
    <2>2. reply[r] = None
      BY <2>1 DEF PInv, RepliedIsDone
    <2>3. CASE Crash
      BY <2>1, <2>2, <2>3 DEF Crash
    <2>4. ASSUME NEW q \in Requests, Client(q) PROVE FALSE
      BY <2>1, <2>2, <2>4 DEF Client, Submit
    <2>5. ASSUME NEW q \in Requests, Handle(q), q # r PROVE FALSE
      <3>1. reply'[r] = reply[r]
        <4>1. CASE pc[q] # "done"
          BY <2>5, <4>1, HandleGone
        <4>2. CASE pc[q] = "done"
          BY <2>5, <4>2 DEF Handle, lock, get_scope, scope_exists,
             assemble_to_converge, assemble_to_delete, _run_ps,
             _fetch_failover_by_name, respond, respond_deleted, FailRead,
             FailCmdlet, Rerun, Issuing
        <4>3. QED
          BY <4>1, <4>2
      <3>2. QED
        BY <2>1, <2>2, <3>1
    <2>6. CASE Handle(r)
      BY <2>1, <2>6, HandleGone
    <2>7. QED
      BY <2>3, <2>4, <2>5, <2>6 DEF Next
  <1>2. QED
    BY <1>1, InitPInv, NextPInv, PTL DEF Spec, DeletedMeansGone

-----------------------------------------------------------------------------
(* Relationships that are left empty *)

\* A cmdlet leaves a relationship empty only by taking the last scope out, and
\* then it succeeds; one that removes the relationship leaves none.
LEMMA RunEmpties ==
    ASSUME NEW srv \in Server, NEW s \in Scopes, NEW c \in Cmdlet, NEW n \in Names,
           NEW new, new = Run(srv, s, c).server,
           new.rels[n] # None, new.rels[n].members = {}
    PROVE  /\ c.op = "RemoveRelationship" => c.arg # n
           /\ \/ srv.rels[n] # None /\ srv.rels[n].members = {}
              \/ /\ c.op = "RemoveFromRelationship" /\ c.arg = n
                 /\ Run(srv, s, c).outcome = "ok"
  <1> DEFINE Goal == /\ c.op = "RemoveRelationship" => c.arg # n
                     /\ \/ srv.rels[n] # None /\ srv.rels[n].members = {}
                        \/ /\ c.op = "RemoveFromRelationship" /\ c.arg = n
                           /\ Run(srv, s, c).outcome = "ok"
  <1> SUFFICES Goal
    OBVIOUS
  <1>1. srv.rels[n] \in Relationship \cup {None}
    BY DEF Server
  <1>2. CASE c.op \in ConfigOps \cup {"AddScope", "RemoveScope"}
    <2>1. new.rels = srv.rels
      BY <1>2, RunLeavesRelationships
    <2>2. QED
      BY <1>2, <2>1 DEF ConfigOps
  <1>3. CASE new = srv
    <2>1. c.op = "RemoveRelationship" => c.arg # n
      <3>1. SUFFICES ASSUME c.op = "RemoveRelationship", c.arg = n PROVE FALSE
        OBVIOUS
      <3>2. Run(srv, s, c) = RemoveRelationship(srv, n)
        BY <3>1 DEF Run, RunOnRelationship, RelationshipOps
      <3>3. new.rels[n] = None
        BY <3>2 DEF RemoveRelationship, Answers, Server
      <3>4. QED
        BY <3>3
    <2>2. QED
      BY <1>3, <2>1
  <1>4. CASE c.op = "Replicate" /\ new # srv
    <2>1. new.rels = srv.rels
      BY <1>4 DEF Run, RunOnScope, RelationshipOps, Replicate, Answers
    <2>2. QED
      BY <1>4, <2>1
  <1>5. CASE c.op = "CreateRelationship" /\ new # srv
    <2> DEFINE f == c.arg
    <2>1. f \in Failover /\ f.name \in Names
      BY <1>5, ConfigArgs DEF Failover
    <2>2. Run(srv, s, c) = CreateRelationship(srv, s, f)
      BY <1>5 DEF Run, RunOnScope, RelationshipOps, Answers
    <2> HIDE DEF f
    <2>3. new = [srv EXCEPT !.rels[f.name] = [peer |-> f.peer, tuning |-> f.tuning,
                                              members |-> {s}],
                            !.synced = @ \cup {s}]
      BY <1>5, <2>2 DEF CreateRelationship, Answers
    <2>4. /\ n = f.name => new.rels[n].members = {s}
          /\ n # f.name => new.rels[n] = srv.rels[n]
      BY <2>1, <2>3 DEF Server
    <2>5. QED
      BY <1>5, <2>4
  <1>6. CASE c.op = "AddToRelationship" /\ new # srv
    <2> DEFINE m == c.arg
    <2>1. m \in Names
      BY <1>6, ConfigArgs
    <2>2. Run(srv, s, c) = AddToRelationship(srv, s, m)
      BY <1>6 DEF Run, RunOnScope, RelationshipOps, Answers
    <2> HIDE DEF m
    <2>3. /\ srv.rels[m] # None
          /\ new = [srv EXCEPT !.rels[m].members = @ \cup {s}, !.synced = @ \cup {s}]
      BY <1>6, <2>2 DEF AddToRelationship, Answers
    <2>4. srv.rels[m] \in Relationship
      BY <2>1, <2>3 DEF Server
    <2>5. /\ n = m => s \in new.rels[n].members
          /\ n # m => new.rels[n] = srv.rels[n]
      BY <2>1, <2>3, <2>4 DEF Server, Relationship
    <2>6. QED
      BY <1>6, <2>5
  <1>7. CASE c.op = "RemoveFromRelationship" /\ new # srv
    <2> DEFINE m == c.arg
    <2>1. m \in Names
      BY <1>7, ConfigArgs
    <2>2. Run(srv, s, c) = RemoveFromRelationship(srv, s, m)
      BY <1>7 DEF Run, RunOnRelationship, RelationshipOps
    <2> HIDE DEF m
    <2>3. /\ Run(srv, s, c).outcome = "ok"
          /\ new = [srv EXCEPT !.rels[m].members = @ \ {s}, !.synced = @ \ {s}]
      BY <1>7, <2>2 DEF RemoveFromRelationship, Answers
    <2>4. n # m => new.rels[n] = srv.rels[n]
      BY <2>1, <2>3 DEF Server
    <2>5. QED
      BY <1>7, <2>3, <2>4 DEF m
  <1>8. CASE c.op = "RemoveRelationship" /\ new # srv
    <2> DEFINE m == c.arg
    <2>1. m \in Names
      BY <1>8, ConfigArgs
    <2>2. Run(srv, s, c) = RemoveRelationship(srv, m)
      BY <1>8 DEF Run, RunOnRelationship, RelationshipOps
    <2> HIDE DEF m
    <2>3. new = [srv EXCEPT !.rels[m] = None, !.synced = @ \ srv.rels[m].members]
      BY <1>8, <2>2 DEF RemoveRelationship, Answers
    <2>4. n # m /\ new.rels[n] = srv.rels[n]
      BY <2>1, <2>3 DEF Server
    <2>5. QED
      BY <1>8, <2>4 DEF m
  <1>9. CASE c.op = "TuneRelationship" /\ new # srv
    <2> DEFINE f == c.arg
    <2>1. f \in Failover /\ f.name \in Names
      BY <1>9, ConfigArgs DEF Failover
    <2>2. Run(srv, s, c) = TuneRelationship(srv, f)
      BY <1>9 DEF Run, RunOnRelationship, RelationshipOps
    <2> HIDE DEF f
    <2>3. srv.rels[f.name] # None /\ new = [srv EXCEPT !.rels[f.name].tuning = f.tuning]
      BY <1>9, <2>2 DEF TuneRelationship, Answers
    <2>4. srv.rels[f.name] \in Relationship
      BY <2>1, <2>3 DEF Server
    <2>5. /\ n = f.name => new.rels[n].members = srv.rels[n].members
          /\ n # f.name => new.rels[n] = srv.rels[n]
      BY <2>1, <2>3, <2>4 DEF Server, Relationship
    <2>6. QED
      BY <1>9, <2>3, <2>5
  <1>10. QED
    BY <1>2, <1>3, <1>4, <1>5, <1>6, <1>7, <1>8, <1>9, ConfigArgs DEF RelationshipOps

\* The steps of a request that is answered, or goes on with steps that look.
LEMMA KeepsLooking ==
    ASSUME IInv, AllLook, NEW r \in Requests,
           \/ \E status, body : Answer(r, status, body)
           \/ \E stage, steps : Proceed(r, stage, steps) /\ LooksAfterLeaving(steps)
    PROVE  /\ AllLook'
           /\ \A q \in Requests \ {r} : pc'[q] = pc[q] /\ todo'[q] = todo[q]
  <1>1. /\ pc \in [Requests -> Stages] /\ todo \in [Requests -> Seq(Step)]
    BY DEF IInv, Control, ControlType
  <1>2. PICK stage, steps : /\ pc' = [pc EXCEPT ![r] = stage]
                            /\ todo' = [todo EXCEPT ![r] = steps]
                            /\ LooksAfterLeaving(steps)
    <2>1. LooksAfterLeaving(<< >>)
      BY AheadEmpty, NeverLeaves
    <2>2. QED
      BY <2>1 DEF Answer, Proceed
  <1>3. QED
    BY <1>1, <1>2 DEF AllLook

\* A step of a request that was not about to look, and leaves the server alone.
LEMMA KeepsClearing ==
    ASSUME OInv, NEW r \in Requests, server' = server, faults' = faults,
           pc[r] \notin {"create", "converge", "delete"} \/ todo[r] = << >>,
           \A q \in Requests \ {r} : pc'[q] = pc[q] /\ todo'[q] = todo[q]
    PROVE  EmptiesCleared'
  <1>1. SUFFICES ASSUME faults = 0, NEW n \in Names, server.rels[n] # None,
                        server.rels[n].members = {}
                 PROVE  \E q \in Requests : Clearing(q, n)'
    BY DEF EmptiesCleared
  <1>2. PICK q \in Requests : Clearing(q, n)
    BY <1>1 DEF OInv, EmptiesCleared
  <1>3. q # r
    BY <1>2 DEF Clearing
  <1>4. Clearing(q, n)'
    BY <1>2, <1>3 DEF Clearing
  <1>5. QED
    BY <1>4

\* Plans look after they leave, and reading empties nothing.
LEMMA ReadOInv ==
    ASSUME OInv, IInv', NEW r \in Requests,
           \/ Client(r) \/ lock(r)
           \/ get_scope(r) \/ scope_exists(r) \/ assemble_to_converge(r)
           \/ assemble_to_delete(r) \/ respond(r) \/ respond_deleted(r)
    PROVE  OInv'
  <1> DEFINE s == scope(r)
             current == Assembled(server, s)
             desired == request[r].desired
             Ends == \E status, body : Answer(r, status, body)
             GoesOn == \E stage, steps : Proceed(r, stage, steps) /\ LooksAfterLeaving(steps)
  <1>1. /\ server' = server /\ faults' = faults /\ late' = late
        /\ pc[r] \notin {"create", "converge", "delete"} \/ todo[r] = << >>
    <2>1. CASE Client(r)
      BY <2>1 DEF Client, Submit
    <2>2. CASE lock(r)
      BY <2>2 DEF lock
    <2>3. CASE get_scope(r) \/ scope_exists(r)
      BY <2>3 DEF get_scope, scope_exists
    <2>4. CASE assemble_to_converge(r) \/ assemble_to_delete(r)
      BY <2>4 DEF assemble_to_converge, assemble_to_delete
    <2>5. CASE respond(r) \/ respond_deleted(r)
      BY <2>5 DEF respond, respond_deleted
    <2>6. QED
      BY <2>1, <2>2, <2>3, <2>4, <2>5
  <1>2. LateIsFault'
    BY <1>1 DEF OInv, LateIsFault
  <1>3. pc[r] \in Locked =>
          /\ s \in Scopes /\ server \in Server
          /\ verb(r) # "DELETE" => desired \in Payload /\ Valid(desired)
    BY HolderFacts DEF OInv
  <1>4. Reading(server, s) = "ok" /\ pc[r] \in Locked => current \in Payload
    BY <1>3, AssembledType
  <1>5. \A reading : Unreadable(r, reading) => Ends
    BY DEF Unreadable
  <1>6. Locked = {"exists", "assemble", "create", "converge", "delete"}
    BY DEF Locked
  <1>7. /\ IInv /\ AllLook
        /\ pc \in [Requests -> Stages] /\ todo \in [Requests -> Seq(Step)]
    BY DEF OInv, IInv, Control, ControlType
  <1>8. Ends \/ GoesOn =>
          /\ AllLook'
          /\ \A q \in Requests \ {r} : pc'[q] = pc[q] /\ todo'[q] = todo[q]
    BY <1>7, KeepsLooking
  <1> HIDE DEF s, current, desired, Ends, GoesOn
  <1>9. CASE Client(r) \/ lock(r)
    <2>1. todo' = todo /\ \A q \in Requests \ {r} : pc'[q] = pc[q]
      <3>1. CASE Client(r)
        BY <1>7, <3>1 DEF Client, Submit
      <3>2. CASE lock(r)
        BY <1>7, <3>2 DEF lock
      <3>3. QED
        BY <1>9, <3>1, <3>2
    <2>2. AllLook'
      BY <1>7, <2>1 DEF AllLook
    <2>3. QED
      BY <1>1, <1>2, <2>1, <2>2, KeepsClearing DEF OInv
  <1>10. get_scope(r) => Ends
    BY <1>5 DEF get_scope, Ends
  <1>11. respond(r) \/ respond_deleted(r) => Ends
    BY <1>5 DEF respond, respond_deleted, Ends
  <1>12. scope_exists(r) => Ends \/ GoesOn
    <2>1. SUFFICES ASSUME scope_exists(r) PROVE Ends \/ GoesOn
      OBVIOUS
    <2>2. /\ pc[r] \in Locked
          /\ \/ Proceed(r, "assemble", << >>)
             \/ verb(r) = "POST" /\ Proceed(r, "create", create_plan(desired))
             \/ Answer(r, "gone", None)
      BY <1>6, <2>1 DEF scope_exists, desired
    <2>3. verb(r) = "POST" => LooksAfterLeaving(create_plan(desired))
      BY <1>3, <2>2, CreateLeads
    <2>4. LooksAfterLeaving(<< >>)
      BY AheadEmpty, NeverLeaves
    <2>5. QED
      BY <2>2, <2>3, <2>4 DEF Ends, GoesOn
  <1>13. assemble_to_converge(r) => Ends \/ GoesOn
    <2>1. SUFFICES ASSUME assemble_to_converge(r) PROVE Ends \/ GoesOn
      OBVIOUS
    <2>2. /\ pc[r] \in Locked /\ verb(r) # "DELETE"
          /\ \/ Unreadable(r, Reading(server, s))
             \/ Answer(r, "immutable_field", None)
             \/ /\ Reading(server, s) = "ok" /\ current.mask = desired.mask
                /\ Proceed(r, "converge", converge_plan(current, desired))
      BY <1>6, <2>1 DEF assemble_to_converge, s, current, desired
    <2>3. Reading(server, s) = "ok" /\ current.mask = desired.mask
            => LooksAfterLeaving(converge_plan(current, desired))
      BY <1>3, <1>4, <2>2, ConvergeLeads
    <2>4. QED
      BY <1>5, <2>2, <2>3 DEF Ends, GoesOn
  <1>14. assemble_to_delete(r) => Ends \/ GoesOn
    <2>1. SUFFICES ASSUME assemble_to_delete(r) PROVE Ends \/ GoesOn
      OBVIOUS
    <2>2. /\ pc[r] \in Locked
          /\ \/ Reading(server, s) = "ok" /\ Proceed(r, "delete", delete_plan(current))
             \/ Answer(r, "gone", None)
             \/ Unreadable(r, Reading(server, s))
      BY <1>6, <2>1, ReadingCases DEF assemble_to_delete, s, current
    <2>3. Reading(server, s) = "ok" => LooksAfterLeaving(delete_plan(current))
      BY <1>4, <2>2, DeleteLeads
    <2>4. QED
      BY <1>5, <2>2, <2>3 DEF Ends, GoesOn
  <1>15. CASE Ends \/ GoesOn
    <2>1. EmptiesCleared'
      BY <1>1, <1>8, <1>15, KeepsClearing
    <2>2. QED
      BY <1>2, <1>8, <1>15, <2>1 DEF OInv
  <1>16. QED
    BY <1>9, <1>10, <1>11, <1>12, <1>13, <1>14, <1>15

\* A fault excuses an empty relationship; the plans still look.
LEMMA FaultOInv ==
    ASSUME OInv, IInv', AllLook', faults' = faults + 1
    PROVE  OInv'
  <1>1. faults' # 0
    BY DEF OInv, IInv, DataType
  <1>2. QED
    BY <1>1 DEF OInv, LateIsFault, EmptiesCleared

\* A lookup of an empty relationship is followed by its removal.
LEMMA LookupOInv ==
    ASSUME OInv, IInv', NEW r \in Requests, _fetch_failover_by_name(r)
    PROVE  OInv'
  <1>1. PICK rest \in Seq(Step) :
          /\ Proceed(r, pc[r], rest)
          /\ Advance(todo[r], Head(todo[r]).do, rest)
          /\ Head(todo[r]).do.op \in LookupOps
          /\ pc[r] \in {"create", "converge", "delete"} /\ todo[r] # << >>
    BY LookupAdvances DEF OInv
  <1>2. server' = server /\ faults' = faults /\ late' = late
    BY DEF _fetch_failover_by_name
  <1>3. /\ IInv /\ AllLook
        /\ pc \in [Requests -> Stages] /\ todo \in [Requests -> Seq(Step)]
    BY DEF OInv, IInv, Control, ControlType
  <1>4. LooksAfterLeaving(rest)
    BY ZenonT(30), <1>1, <1>3, LooksAdvances DEF AllLook
  <1>5. /\ AllLook'
        /\ \A q \in Requests \ {r} : pc'[q] = pc[q] /\ todo'[q] = todo[q]
    BY <1>1, <1>3, <1>4, KeepsLooking
  <1>6. EmptiesCleared'
    <2>1. SUFFICES ASSUME faults = 0, NEW n \in Names, server.rels[n] # None,
                          server.rels[n].members = {}
                   PROVE  \E q \in Requests : Clearing(q, n)'
      BY <1>2 DEF EmptiesCleared
    <2>2. PICK q \in Requests : Clearing(q, n)
      BY <2>1 DEF OInv, EmptiesCleared
    <2>3. CASE q # r
      BY <1>5, <2>2, <2>3 DEF Clearing
    <2>4. CASE q = r
      <3> DEFINE remove == Call("RemoveRelationship", n)
                 later == Tail(todo[r])
      <3>1. Head(todo[r]).do.op = "CleanupRelationship" /\ Head(todo[r]).do.arg = n
        BY <1>1, <2>2, <2>4 DEF Clearing, LookupOps
      <3>2. Proceed(r, pc[r], <<remove>> \o later)
        BY <2>1, <3>1 DEF _fetch_failover_by_name, When
      <3>3. later \in Seq(Step) /\ remove \in Step
        <4>1. [op |-> "RemoveRelationship", arg |-> n] \in Cmdlet
          BY DEF Cmdlet
        <4>2. QED
          BY <1>1, <1>3, <4>1, AheadHead, CallType
      <3>4. remove.do = [op |-> "RemoveRelationship", arg |-> n]
        BY DEF Call
      <3> HIDE DEF remove, later
      <3>5. <<remove>> \o later # << >> /\ Head(<<remove>> \o later) = remove
        BY <3>3, ConsParts
      <3>6. pc'[r] = pc[r] /\ todo'[r] = <<remove>> \o later
        BY <1>3, <3>2 DEF Proceed
      <3>7. Clearing(r, n)'
        BY <1>1, <3>4, <3>5, <3>6 DEF Clearing
      <3>8. QED
        BY <3>7
    <2>5. QED
      BY <2>3, <2>4
  <1>7. QED
    BY <1>2, <1>5, <1>6 DEF OInv, LateIsFault

\* However a script ends, the plans still look after they leave.
LEMMA ConcludeLooks ==
    ASSUME IInv, AllLook, NEW r \in Requests, todo[r] # << >>,
           NEW issued \in Issuable(todo[r]), NEW outcome,
           Conclude(r, issued.rest, outcome)
    PROVE  /\ AllLook'
           /\ \A q \in Requests \ {r} : pc'[q] = pc[q] /\ todo'[q] = todo[q]
  <1>1. todo[r] \in Seq(Step)
    BY DEF IInv, Control, ControlType
  <1>2. Advance(todo[r], issued.cmdlet, issued.rest) /\ issued.rest \in Seq(Step)
    BY <1>1, IssuableAdvances, IssuableType
  <1>3. LooksAfterLeaving(issued.rest)
    BY <1>1, <1>2, LooksAdvances DEF AllLook
  <1>4. \/ \E status, body : Answer(r, status, body)
        \/ \E stage, steps : Proceed(r, stage, steps) /\ LooksAfterLeaving(steps)
    BY <1>3 DEF Conclude
  <1>5. QED
    BY <1>4, KeepsLooking

\* A script that takes the last scope out is followed by a look.
LEMMA ScriptOInv ==
    ASSUME OInv, IInv', NEW r \in Requests,
           \/ _run_ps(r) \/ FailCmdlet(r) \/ Rerun(r) \/ LeaveBehind(r)
    PROVE  OInv'
  <1>1. CASE LeaveBehind(r)
    <2>1. PICK c \in Issuing(r) :
            Fault("late", {r}) /\ \E outcome : Conclude(r, c.rest, outcome)
      BY <1>1 DEF LeaveBehind
    <2>2. todo[r] # << >> /\ c \in Issuable(todo[r]) /\ faults' = faults + 1
      BY <2>1 DEF Issuing, Fault
    <2>3. AllLook'
      BY <2>1, <2>2, ConcludeLooks DEF OInv
    <2>4. QED
      BY <2>2, <2>3, FaultOInv
  <1>2. CASE _run_ps(r) \/ FailCmdlet(r) \/ Rerun(r)
    <2>1. /\ pc[r] \in {"create", "converge", "delete"} /\ todo[r] # << >>
          /\ late' = late
      BY <1>2, ScriptEffect DEF OInv, _run_ps, FailCmdlet, Rerun
    <2>2. PICK issued \in Issuable(todo[r]), outcome \in Outcomes \cup {"timeout", "broken"} :
            /\ Conclude(r, issued.rest, outcome)
            /\ \/ faults' = faults + 1
               \/ /\ faults' = faults
                  /\ server' = Run(server, scope(r), issued.cmdlet).server
                  /\ outcome = Run(server, scope(r), issued.cmdlet).outcome
      BY <1>2, ScriptEffect DEF OInv
    <2>3. /\ AllLook'
          /\ \A q \in Requests \ {r} : pc'[q] = pc[q] /\ todo'[q] = todo[q]
      BY <2>1, <2>2, ConcludeLooks DEF OInv
    <2>4. CASE faults' = faults + 1
      BY <2>3, <2>4, FaultOInv
    <2>5. CASE /\ faults' = faults
               /\ server' = Run(server, scope(r), issued.cmdlet).server
               /\ outcome = Run(server, scope(r), issued.cmdlet).outcome
      <3> DEFINE c == issued.cmdlet
                 rest == issued.rest
      <3>1. scope(r) \in Scopes /\ server \in Server /\ todo[r] \in Seq(Step)
        BY <2>1, HolderFacts DEF OInv, Locked
      <3>2. c \in Cmdlet /\ rest \in Seq(Step) /\ Advance(todo[r], c, rest)
        BY <2>1, <3>1, IssuableType, IssuableAdvances
      <3> HIDE DEF c, rest
      <3>3. c.op = "RemoveFromRelationship" =>
              /\ rest # << >>
              /\ Head(rest).do = [op |-> "CleanupRelationship", arg |-> c.arg]
        BY <2>1, <3>1, <3>2, LooksAdvances DEF OInv, AllLook
      <3>4. SUFFICES EmptiesCleared'
        BY <2>1, <2>3, <2>5 DEF OInv, LateIsFault
      <3>5. SUFFICES ASSUME faults = 0, NEW n \in Names, server'.rels[n] # None,
                            server'.rels[n].members = {}
                     PROVE  \E q \in Requests : Clearing(q, n)'
        BY <2>5 DEF EmptiesCleared
      <3>6. /\ c.op = "RemoveRelationship" => c.arg # n
            /\ \/ server.rels[n] # None /\ server.rels[n].members = {}
               \/ /\ c.op = "RemoveFromRelationship" /\ c.arg = n
                  /\ outcome = "ok"
        BY <2>5, <3>1, <3>2, <3>5, RunEmpties DEF c
      <3>7. CASE c.op = "RemoveFromRelationship" /\ c.arg = n /\ outcome = "ok"
        <4>1. Proceed(r, pc[r], rest)
          BY <2>2, <3>7 DEF Conclude, rest
        <4>2. pc'[r] = pc[r] /\ todo'[r] = rest
          BY <4>1 DEF Proceed, OInv, IInv, Control, ControlType
        <4>3. Clearing(r, n)'
          BY <2>1, <3>3, <3>7, <4>2 DEF Clearing
        <4>4. QED
          BY <4>3
      <3>8. CASE server.rels[n] # None /\ server.rels[n].members = {}
        <4>1. PICK q \in Requests : Clearing(q, n)
          BY <3>5, <3>8 DEF OInv, EmptiesCleared
        <4>2. q # r
          <5>1. SUFFICES ASSUME Clearing(r, n) PROVE FALSE
            BY <4>1
          <5>2. /\ Head(todo[r]).do.op \in {"CleanupRelationship", "RemoveRelationship"}
                /\ Head(todo[r]).do.arg = n
            BY <5>1 DEF Clearing
          <5>3. Head(todo[r]).do.op # "CleanupRelationship"
            BY <2>2 DEF Issuable, BatchOps, LookupOps
          <5>4. c = Head(todo[r]).do
            BY <3>2, <5>2, AdvanceKinds DEF BatchOps
          <5>5. QED
            BY <3>6, <5>2, <5>3, <5>4
        <4>3. Clearing(q, n)'
          BY <2>3, <4>1, <4>2 DEF Clearing
        <4>4. QED
          BY <4>3
      <3>9. QED
        BY <3>6, <3>7, <3>8
    <2>6. QED
      BY <2>2, <2>4, <2>5
  <1>3. QED
    BY <1>1, <1>2

\* Every step keeps OInv, late scripts included.
LEMMA NextOInv == OInv /\ [LateNext]_vars => OInv'
  <1> SUFFICES ASSUME OInv, [LateNext]_vars PROVE OInv'
    OBVIOUS
  <1>1. IInv' /\ IInv /\ AllLook
    BY NextIInv DEF OInv
  <1>2. ASSUME NEW r \in Requests, Client(r) PROVE OInv'
    BY <1>1, <1>2, ReadOInv
  <1>3. ASSUME NEW r \in Requests, FailRead(r) PROVE OInv'
    <2>1. (\E status, body : Answer(r, status, body)) /\ faults' = faults + 1
      BY <1>3 DEF FailRead, Fault
    <2>2. QED
      BY <1>1, <2>1, KeepsLooking, FaultOInv
  <1>4. ASSUME NEW r \in Requests, Handle(r) \/ LeaveBehind(r) PROVE OInv'
    BY <1>1, <1>3, <1>4, ReadOInv, ScriptOInv, LookupOInv DEF Handle
  <1>5. CASE Crash
    <2>1. todo' = [r \in Requests |-> << >>] /\ faults' = faults + 1
      BY <1>5 DEF Crash, Fault
    <2>2. AllLook'
      BY <2>1, AheadEmpty, NeverLeaves DEF AllLook
    <2>3. QED
      BY <1>1, <2>1, <2>2, FaultOInv
  <1>6. CASE RunLate
    <2>1. late # {} /\ todo' = todo /\ faults' = faults
      BY <1>6 DEF RunLate
    <2>2. faults' # 0
      BY <2>1 DEF OInv, LateIsFault
    <2>3. QED
      BY <1>1, <2>1, <2>2 DEF OInv, AllLook, LateIsFault, EmptiesCleared
  <1>7. CASE UNCHANGED vars
    BY <1>1, <1>7 DEF vars, OInv, AllLook, LateIsFault, EmptiesCleared, Clearing
  <1>8. QED
    BY <1>2, <1>4, <1>5, <1>6, <1>7 DEF Next, LateNext

\* OInv holds at the start.
LEMMA InitOInv == Init => OInv
  <1> SUFFICES ASSUME Init PROVE OInv
    OBVIOUS
  <1>1. PICK f \in [Scopes -> Payloads \cup {None}] : server = Laid(f)
    BY DEF Init
  <1>2. ASSUME NEW n \in Names, server.rels[n] # None PROVE server.rels[n].members # {}
    <2> DEFINE w == CHOOSE w \in Joining(f, n) : TRUE
    <2>1. server.rels[n] = IF Joining(f, n) = {} THEN None
                           ELSE [peer |-> f[w].failover.peer,
                                 tuning |-> f[w].failover.tuning,
                                 members |-> Joining(f, n)]
      BY <1>1 DEF Laid
    <2> HIDE DEF w
    <2>2. QED
      BY <1>2, <2>1
  <1>3. AllLook
    BY AheadEmpty, NeverLeaves DEF Init, AllLook
  <1>4. QED
    BY <1>2, <1>3, InitIInv DEF Init, OInv, LateIsFault, EmptiesCleared

\* As long as nothing goes wrong, a failover relationship that is empty is one
\* that some request is about to remove: whoever takes the last scope out looks
\* next, and finds it empty unless another scope has joined.
THEOREM OrphansComeOfFaults == Spec \/ LateSpec => []OrphansTakeFaults
  <1>1. OInv => OrphansTakeFaults
    <2>1. ASSUME OInv, NEW n \in Names, NEW r \in Requests, Clearing(r, n)
          PROVE  CleaningUp(n)
      <3>1. todo[r] \in Seq(Step) /\ todo[r] # << >>
        BY <2>1 DEF OInv, IInv, Control, ControlType, Clearing
      <3>2. 1 \in 1 .. Len(todo[r]) /\ Head(todo[r]) = todo[r][1]
        BY <3>1
      <3>3. QED
        BY <2>1, <3>2 DEF Clearing, CleaningUp
    <2>2. QED
      BY <2>1 DEF OInv, EmptiesCleared, OrphansTakeFaults, NoOrphanedRelationship
  <1>2. QED
    BY <1>1, SpecIsLate, InitOInv, NextOInv, PTL DEF Spec, LateSpec
=============================================================================
