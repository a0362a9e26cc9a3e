------------------------- MODULE ScopeServiceProofs -------------------------
(***************************************************************************)
(* Every cmdlet takes a server state to a server state.  And what the      *)
(* plans of scope_service.py are, for every payload: steps the server can  *)
(* be given, range writes Windows accepts, and nothing at all when there   *)
(* is nothing to change.                                                   *)
(*                                                                         *)
(* Then, for any number of requests, scopes and faults: the states of the  *)
(* request handlers are well-formed, and a scope has one writer at a time. *)
(* Neither is inductive alone.  The invariant adds what a stage says about *)
(* the request that reached it, and that whoever is past the lock is at    *)
(* the head of its scope's queue.                                          *)
(***************************************************************************)
EXTENDS ScopeProperties, TLAPS

-----------------------------------------------------------------------------
(* Cmdlets *)

Outcomes == {"ok"} \cup CmdletErrors

\* A write to a scope's configuration leaves a server state.
LEMMA ConfigureType ==
    ASSUME NEW srv \in Server, NEW s \in Scopes, NEW config \in ScopeConfig
    PROVE  /\ Configure(srv, s, config).server \in Server
           /\ Configure(srv, s, config).outcome \in Outcomes
  BY DEF Configure, Answers, Server, Outcomes

\* A change of one relationship leaves a server state.
LEMMA RelationshipType ==
    ASSUME NEW srv \in Server, NEW n \in Names,
           NEW rel \in Relationship \cup {None}, NEW S \in SUBSET Scopes
    PROVE  [srv EXCEPT !.rels[n] = rel, !.synced = S] \in Server
  BY DEF Server

\* What the server answers to a cmdlet on a scope that exists, and that it is
\* left in a server state (the cmdlets of scope_service.py).
LEMMA RunOnScopeType ==
    ASSUME NEW srv \in Server, NEW s \in Scopes, NEW c \in Cmdlet,
           srv.scopes[s] # None, c.op \notin RelationshipOps, c.op # "AddScope"
    PROVE  /\ RunOnScope(srv, s, c).server \in Server
           /\ RunOnScope(srv, s, c).outcome \in Outcomes
  <1> DEFINE held == srv.scopes[s]
  <1>0. held \in ScopeConfig
    BY DEF Server
  <1>1. CASE c.op = "SetRange"
    <2>1. c.arg \in Range
      BY <1>1 DEF Cmdlet
    <2>2. [held EXCEPT !.range = c.arg] \in ScopeConfig
      BY <1>0, <2>1 DEF ScopeConfig
    <2>3. RunOnScope(srv, s, c) = SetRange(srv, s, c.arg)
      BY <1>1 DEF RunOnScope
    <2>4. QED
      BY <2>2, <2>3, ConfigureType DEF SetRange, Answers, CmdletErrors, Outcomes
  <1>2. CASE c.op = "SetParams"
    <2>1. c.arg \in Params
      BY <1>2 DEF Cmdlet
    <2>2. [held EXCEPT !.params = c.arg] \in ScopeConfig
      BY <1>0, <2>1 DEF ScopeConfig
    <2>3. RunOnScope(srv, s, c) = Configure(srv, s, [held EXCEPT !.params = c.arg])
      BY <1>2 DEF RunOnScope
    <2>4. QED
      BY <2>2, <2>3, ConfigureType
  <1>3. CASE c.op = "SetOptions"
    <2> DEFINE router == IF c.arg.gateway = None THEN held.gateway
                                                 ELSE c.arg.gateway
    <2>1. c.arg \in [dns : Dns, gateway : Address \cup {None}]
      BY <1>3 DEF Cmdlet
    <2>2. router \in Address \cup {None}
      BY <1>0, <2>1 DEF ScopeConfig
    <2>3. [held EXCEPT !.dns = c.arg.dns, !.gateway = router] \in ScopeConfig
      BY <1>0, <2>1, <2>2 DEF ScopeConfig
    <2>4. RunOnScope(srv, s, c)
            = Configure(srv, s, [held EXCEPT !.dns = c.arg.dns, !.gateway = router])
      BY <1>3, <1>0 DEF RunOnScope, SetOptions, ScopeConfig
    <2>5. QED
      BY <2>3, <2>4, ConfigureType
  <1>4. CASE c.op = "SetBootHost"
    <2>1. c.arg \in BootHosts
      BY <1>4 DEF Cmdlet
    <2>2. [held EXCEPT !.next = c.arg] \in ScopeConfig
      BY <1>0, <2>1 DEF ScopeConfig
    <2>3. RunOnScope(srv, s, c) = Configure(srv, s, [held EXCEPT !.next = c.arg])
      BY <1>4 DEF RunOnScope
    <2>4. QED
      BY <2>2, <2>3, ConfigureType
  <1>5. CASE c.op = "SetBootFile"
    <2>1. c.arg \in BootFiles
      BY <1>5 DEF Cmdlet
    <2>2. [held EXCEPT !.file = c.arg] \in ScopeConfig
      BY <1>0, <2>1 DEF ScopeConfig
    <2>3. RunOnScope(srv, s, c) = Configure(srv, s, [held EXCEPT !.file = c.arg])
      BY <1>5 DEF RunOnScope
    <2>4. QED
      BY <2>2, <2>3, ConfigureType
  <1>6. CASE c.op \in {"RemoveRouter", "RemoveBootHost", "RemoveBootFile"}
    <2>1. /\ [held EXCEPT !.gateway = None] \in ScopeConfig
          /\ [held EXCEPT !.next = None] \in ScopeConfig
          /\ [held EXCEPT !.file = None] \in ScopeConfig
      BY <1>0 DEF ScopeConfig
    <2>2. CASE c.op = "RemoveRouter"
      <3>1. RunOnScope(srv, s, c) = RemoveRouter(srv, s)
        BY <2>2 DEF RunOnScope
      <3>2. QED
        BY <2>1, <3>1, ConfigureType DEF RemoveRouter, Answers, CmdletErrors, Outcomes
    <2>3. CASE c.op = "RemoveBootHost"
      <3>1. RunOnScope(srv, s, c) = RemoveBootHost(srv, s)
        BY <2>3 DEF RunOnScope
      <3>2. QED
        BY <2>1, <3>1, ConfigureType DEF RemoveBootHost, Answers, CmdletErrors, Outcomes
    <2>4. CASE c.op = "RemoveBootFile"
      <3>1. RunOnScope(srv, s, c) = RemoveBootFile(srv, s)
        BY <2>4 DEF RunOnScope
      <3>2. QED
        BY <2>1, <3>1, ConfigureType DEF RemoveBootFile, Answers, CmdletErrors, Outcomes
    <2>5. QED
      BY <1>6, <2>2, <2>3, <2>4
  <1>7. CASE c.op \in {"AddExclusion", "RemoveExclusion"}
    <2>1. c.arg \in Range
      BY <1>7 DEF Cmdlet
    <2>2. /\ [held EXCEPT !.exclusions = held.exclusions \cup {c.arg}] \in ScopeConfig
          /\ [held EXCEPT !.exclusions = held.exclusions \ {c.arg}] \in ScopeConfig
      BY <1>0, <2>1 DEF ScopeConfig
    <2>3. CASE c.op = "AddExclusion"
      <3>1. RunOnScope(srv, s, c) = AddExclusion(srv, s, c.arg)
        BY <2>3 DEF RunOnScope
      <3>2. QED
        BY <2>2, <3>1, ConfigureType DEF AddExclusion, Answers, CmdletErrors, Outcomes
    <2>4. CASE c.op = "RemoveExclusion"
      <3>1. RunOnScope(srv, s, c) = RemoveExclusion(srv, s, c.arg)
        BY <2>4 DEF RunOnScope
      <3>2. QED
        BY <2>2, <3>1, ConfigureType DEF RemoveExclusion, Answers, CmdletErrors, Outcomes
    <2>5. QED
      BY <1>7, <2>3, <2>4
  <1>8. CASE c.op = "RemoveScope"
    BY <1>8 DEF RunOnScope, RemoveScope, Answers, Server, Outcomes
  <1>9. CASE c.op = "CreateRelationship"
    <2> DEFINE rel == [peer |-> c.arg.peer, tuning |-> c.arg.tuning, members |-> {s}]
    <2>1. c.arg \in Failover
      BY <1>9 DEF Cmdlet
    <2>2. rel \in Relationship /\ c.arg.name \in Names
      BY <2>1 DEF Failover, Relationship
    <2>3. srv.synced \cup {s} \in SUBSET Scopes
      BY DEF Server
    <2>4. [srv EXCEPT !.rels[c.arg.name] = rel, !.synced = srv.synced \cup {s}] \in Server
      BY <2>2, <2>3, RelationshipType
    <2>5. RunOnScope(srv, s, c) = CreateRelationship(srv, s, c.arg)
      BY <1>9 DEF RunOnScope
    <2>6. QED
      BY <2>4, <2>5 DEF CreateRelationship, Answers, CmdletErrors, Outcomes
  <1>10. CASE c.op = "AddToRelationship"
    <2>1. c.arg \in Names
      BY <1>10 DEF Cmdlet
    <2>2. srv.synced \cup {s} \in SUBSET Scopes
      BY DEF Server
    <2>3. ASSUME srv.rels[c.arg] # None
          PROVE  [srv EXCEPT !.rels[c.arg].members = @ \cup {s},
                             !.synced = @ \cup {s}] \in Server
      BY <2>1, <2>2, <2>3, ZenonT(60) DEF Server, Relationship
    <2>4. RunOnScope(srv, s, c) = AddToRelationship(srv, s, c.arg)
      BY <1>10 DEF RunOnScope
    <2>5. QED
      BY <2>3, <2>4 DEF AddToRelationship, Answers, CmdletErrors, Outcomes
  <1>11. CASE c.op = "Replicate"
    BY <1>11 DEF RunOnScope, Replicate, Answers, Server, CmdletErrors, Outcomes
  <1>12. QED
    BY <1>1, <1>2, <1>3, <1>4, <1>5, <1>6, <1>7, <1>8, <1>9, <1>10, <1>11
       DEF Cmdlet, RelationshipOps

\* The same for the cmdlets of a relationship.
LEMMA RunOnRelationshipType ==
    ASSUME NEW srv \in Server, NEW s \in Scopes, NEW c \in Cmdlet,
           c.op \in RelationshipOps
    PROVE  /\ RunOnRelationship(srv, s, c).server \in Server
           /\ RunOnRelationship(srv, s, c).outcome \in Outcomes
  <1>1. CASE c.op = "RemoveFromRelationship"
    <2>1. c.arg \in Names
      BY <1>1 DEF Cmdlet
    <2>2. ASSUME srv.rels[c.arg] # None
          PROVE  [srv EXCEPT !.rels[c.arg].members = @ \ {s},
                             !.synced = @ \ {s}] \in Server
      BY <2>1, <2>2, ZenonT(60) DEF Server, Relationship
    <2>3. RunOnRelationship(srv, s, c) = RemoveFromRelationship(srv, s, c.arg)
      BY <1>1 DEF RunOnRelationship
    <2>4. QED
      BY <2>2, <2>3 DEF RemoveFromRelationship, Answers, CmdletErrors, Outcomes
  <1>2. CASE c.op = "RemoveRelationship"
    <2>1. c.arg \in Names
      BY <1>2 DEF Cmdlet
    <2>2. srv.synced \ srv.rels[c.arg].members \in SUBSET Scopes
      BY DEF Server
    <2>3. [srv EXCEPT !.rels[c.arg] = None,
                      !.synced = srv.synced \ srv.rels[c.arg].members] \in Server
      BY <2>1, <2>2, RelationshipType
    <2>4. RunOnRelationship(srv, s, c) = RemoveRelationship(srv, c.arg)
      BY <1>2 DEF RunOnRelationship
    <2>5. QED
      BY <2>3, <2>4 DEF RemoveRelationship, Answers, CmdletErrors, Outcomes
  <1>3. CASE c.op = "TuneRelationship"
    <2>1. c.arg \in Failover
      BY <1>3 DEF Cmdlet
    <2>2. ASSUME srv.rels[c.arg.name] # None
          PROVE  [srv EXCEPT !.rels[c.arg.name].tuning = c.arg.tuning] \in Server
      BY <2>1, <2>2 DEF Server, Relationship, Failover
    <2>3. RunOnRelationship(srv, s, c) = TuneRelationship(srv, c.arg)
      BY <1>3 DEF RunOnRelationship
    <2>4. QED
      BY <2>2, <2>3 DEF TuneRelationship, Answers, CmdletErrors, Outcomes
  <1>4. QED
    BY <1>1, <1>2, <1>3 DEF RelationshipOps

\* Every cmdlet leaves the server in a server state and answers one of the
\* outcomes the service tells apart.
THEOREM RunType ==
    ASSUME NEW srv \in Server, NEW s \in Scopes, NEW c \in Cmdlet
    PROVE  /\ Run(srv, s, c).server \in Server
           /\ Run(srv, s, c).outcome \in Outcomes
  <1>1. CASE c.op \in RelationshipOps
    BY <1>1, RunOnRelationshipType DEF Run, RelationshipOps
  <1>2. CASE c.op = "AddScope"
    <2>1. c.arg \in [mask : Masks, range : Range, params : Params]
      BY <1>2 DEF Cmdlet
    <2>2. Fresh(c.arg) \in ScopeConfig
      BY <2>1 DEF Fresh, ScopeConfig
    <2>3. Run(srv, s, c) = IF Exists(srv, s) THEN Answers("alreadyExists", srv)
                                             ELSE Configure(srv, s, Fresh(c.arg))
      BY <1>2 DEF Run, RelationshipOps
    <2>4. QED
      BY <2>2, <2>3, ConfigureType DEF Answers, CmdletErrors, Outcomes
  <1>3. CASE c.op \notin RelationshipOps \cup {"AddScope"}
    <2>1. Run(srv, s, c) = IF Exists(srv, s) THEN RunOnScope(srv, s, c)
                                             ELSE Answers("notFound", srv)
      BY <1>3 DEF Run, RelationshipOps
    <2>2. QED
      BY <1>3, <2>1, RunOnScopeType DEF Exists, Answers, CmdletErrors, Outcomes
  <1>4. QED
    BY <1>1, <1>2, <1>3

-----------------------------------------------------------------------------
(* Sequences *)

\* Sequences of one element and of two.
LEMMA OneOrTwo ==
    ASSUME NEW S, NEW x \in S, NEW y \in S
    PROVE  /\ <<x>> \o <<y>> = <<x, y>>
           /\ <<x>> \o << >> = <<x>>
           /\ << >> \o <<y>> = <<y>>
           /\ <<x>> \in Seq(S) /\ <<x, y>> \in Seq(S)
           /\ Len(<<x>>) = 1 /\ Len(<<x, y>>) = 2
           /\ <<x>> # << >> /\ <<x, y>> # << >>
  <1>1. /\ <<x>> \o << >> = <<x>>
        /\ << >> \o <<y>> = <<y>>
    OBVIOUS
  <1>2. /\ <<x>> \in Seq(S) /\ <<x, y>> \in Seq(S)
        /\ Len(<<x>>) = 1 /\ Len(<<x, y>>) = 2
        /\ <<x>> # << >> /\ <<x, y>> # << >>
    OBVIOUS
  <1>3. <<x>> \o <<y>> = <<x, y>>
    <2> DEFINE s == <<x>> \o <<y>>
               t == <<x, y>>
    <2>1. s \in Seq(S) /\ Len(s) = 2 /\ s[1] = x /\ s[2] = y
      OBVIOUS
    <2>2. t \in Seq(S) /\ Len(t) = 2 /\ t[1] = x /\ t[2] = y
      OBVIOUS
    <2> HIDE DEF s, t
    <2>3. s = [i \in 1 .. 2 |-> s[i]] /\ t = [i \in 1 .. 2 |-> t[i]]
      BY <2>1, <2>2
    <2>4. \A i \in 1 .. 2 : s[i] = t[i]
      BY <2>1, <2>2
    <2>5. s = t
      BY <2>3, <2>4
    <2>6. QED
      BY <2>5 DEF s, t
  <1>4. QED
    BY <1>1, <1>2, <1>3

-----------------------------------------------------------------------------
(* The range transition *)

\* The ranges between two ranges and their union are ranges.
LEMMA UnionType ==
    ASSUME NEW current \in Range, NEW desired \in Range
    PROVE  /\ Union(current, desired) \in Range
           /\ Inside(current, Union(current, desired))
           /\ Inside(desired, Union(current, desired))
  <1>1. /\ current[1] \in Nat /\ current[2] \in Nat
        /\ desired[1] \in Nat /\ desired[2] \in Nat
    BY AbsentIsNoValue DEF Range, Address
  <1>2. QED
    BY <1>1, AbsentIsNoValue
       DEF Union, Lowest, Highest, Range, Address, Inside

\* _range_transition_steps takes at most two writes.
LEMMA TransitionCases ==
    ASSUME NEW current \in Range, NEW desired \in Range
    PROVE  \/ /\ current = desired
              /\ _range_transition_steps(current, desired) = << >>
           \/ /\ Union(current, desired) \in {current, desired}
              /\ _range_transition_steps(current, desired) = <<desired>>
           \/ _range_transition_steps(current, desired) =
                <<Union(current, desired), desired>>
  <1> DEFINE union == Union(current, desired)
             steps == _range_transition_steps(current, desired)
  <1>1. union \in Range
    BY UnionType
  <1>2. steps = When(current # desired,
                     When(union # current, <<union>>)
                       \o When(union # desired, <<desired>>))
    BY DEF _range_transition_steps
  <1> HIDE DEF union, steps
  <1>3. CASE current = desired
    BY <1>2, <1>3 DEF When, steps
  <1>4. CASE current # desired /\ union = current
    <2>1. steps = << >> \o <<desired>>
      BY <1>2, <1>4 DEF When
    <2>2. QED
      BY <2>1, <1>4, OneOrTwo DEF union, steps
  <1>5. CASE current # desired /\ union # current /\ union = desired
    <2>1. steps = <<desired>> \o << >>
      BY <1>2, <1>5 DEF When
    <2>2. QED
      BY <2>1, <1>5, OneOrTwo DEF union, steps
  <1>6. CASE current # desired /\ union # current /\ union # desired
    <2>1. steps = <<union>> \o <<desired>>
      BY <1>2, <1>6 DEF When
    <2>2. QED
      BY <2>1, <1>1, OneOrTwo DEF union, steps
  <1>7. QED
    BY <1>3, <1>4, <1>5, <1>6

\* The range a scope has when the i-th of `steps` is issued.
HeldBefore(current, steps, i) == IF i = 1 THEN current ELSE steps[i - 1]

\* A range write the server takes.
Accepted(held, range) == Inside(range, held) \/ Inside(held, range)

\* Every write of the transition contains, or is contained in, the range the
\* scope has when it is issued, so Windows takes it; the last one is the range
\* asked for (_range_transition_steps).
THEOREM RangeStepsAccepted ==
    ASSUME NEW current \in Range, NEW desired \in Range,
           NEW steps, steps = _range_transition_steps(current, desired)
    PROVE  /\ steps \in Seq(Range)
           /\ \A i \in 1 .. Len(steps) :
                Accepted(HeldBefore(current, steps, i), steps[i])
           /\ IF steps = << >> THEN current = desired
                               ELSE steps[Len(steps)] = desired
  <1> DEFINE union == Union(current, desired)
  <1>1. /\ union \in Range /\ Inside(current, union) /\ Inside(desired, union)
    BY UnionType
  <1>2. \/ current = desired /\ steps = << >>
        \/ union \in {current, desired} /\ steps = <<desired>>
        \/ steps = <<union, desired>>
    BY TransitionCases
  <1> HIDE DEF union
  <1>3. CASE current = desired /\ steps = << >>
    BY <1>3
  <1>4. CASE union \in {current, desired} /\ steps = <<desired>>
    <2>1. /\ steps \in Seq(Range) /\ Len(steps) = 1 /\ steps[1] = desired
          /\ steps # << >>
      BY <1>4, OneOrTwo
    <2>2. Accepted(current, desired)
      BY <1>1, <1>4 DEF Accepted
    <2>3. QED
      BY <2>1, <2>2 DEF HeldBefore
  <1>5. CASE steps = <<union, desired>>
    <2>1. /\ steps \in Seq(Range) /\ Len(steps) = 2
          /\ steps[1] = union /\ steps[2] = desired /\ steps # << >>
      BY <1>1, <1>5, OneOrTwo
    <2>2. Accepted(current, union) /\ Accepted(union, desired)
      BY <1>1 DEF Accepted
    <2>3. QED
      BY <2>1, <2>2 DEF HeldBefore
  <1>6. QED
    BY <1>2, <1>3, <1>4, <1>5

\* No write of the transition exposes an address outside the two ranges, unless
\* they are disjoint: then only those between them (the docstring of
\* _range_transition_steps).
THEOREM RangeStepsStayBetween ==
    ASSUME NEW current \in Range, NEW desired \in Range,
           NEW i \in 1 .. Len(_range_transition_steps(current, desired)),
           NEW a \in Address,
           Covers(_range_transition_steps(current, desired)[i], a)
    PROVE  \/ Covers(current, a)
           \/ Covers(desired, a)
           \/ current[2] < a /\ a < desired[1]
           \/ desired[2] < a /\ a < current[1]
  <1> DEFINE steps == _range_transition_steps(current, desired)
             union == Union(current, desired)
  <1>1. /\ current[1] \in Nat /\ current[2] \in Nat
        /\ desired[1] \in Nat /\ desired[2] \in Nat /\ a \in Nat
    BY AbsentIsNoValue DEF Range, Address
  <1>2. union \in Range
    BY UnionType
  <1>3. steps = << >> \/ steps = <<desired>> \/ steps = <<union, desired>>
    BY TransitionCases
  <1>4. steps[i] = desired \/ steps[i] = union
    <2>1. i \in 1 .. Len(steps)
      OBVIOUS
    <2> HIDE DEF steps, union
    <2>2. CASE steps = << >>
      BY <2>1, <2>2
    <2>3. CASE steps = <<desired>>
      BY <2>1, <2>3, OneOrTwo
    <2>4. CASE steps = <<union, desired>>
      BY <2>1, <2>4, <1>2, OneOrTwo
    <2>5. QED
      BY <1>3, <2>2, <2>3, <2>4
  <1>5. CASE steps[i] = desired
    BY <1>5
  <1>6. CASE steps[i] = union
    BY <1>1, <1>6 DEF Union, Lowest, Highest, Covers
  <1>7. QED
    BY <1>4, <1>5, <1>6
-----------------------------------------------------------------------------
(* Plans are sequences of steps *)

\* A conditional part of a plan.
LEMMA WhenType ==
    ASSUME NEW S, NEW condition, NEW steps, condition => steps \in Seq(S)
    PROVE  When(condition, steps) \in Seq(S)
  <1>1. CASE condition
    BY <1>1 DEF When
  <1>2. CASE ~condition
    BY <1>2 DEF When
  <1>3. QED
    BY <1>1, <1>2

\* A call of _run_ps with its policy flags.
LEMMA TolerantType ==
    ASSUME NEW op, NEW arg, NEW errors \in SUBSET PowerShellErrors,
           [op |-> op, arg |-> arg] \in Cmdlet \cup Batches \cup Lookups
    PROVE  /\ Tolerant(op, arg, errors) \in Step
           /\ <<Tolerant(op, arg, errors)>> \in Seq(Step)
  <1>1. Tolerant(op, arg, errors) \in Step
    BY DEF Tolerant, Step
  <1>2. QED
    BY <1>1

\* A call of run_ps, which tolerates nothing.
LEMMA CallType ==
    ASSUME NEW op, NEW arg,
           [op |-> op, arg |-> arg] \in Cmdlet \cup Batches \cup Lookups
    PROVE  Call(op, arg) \in Step /\ <<Call(op, arg)>> \in Seq(Step)
  <1>1. Call(op, arg) \in Step
    BY DEF Call, Step
  <1>2. QED
    BY <1>1

\* The error kinds the code tolerates are PowerShellErrors.
LEMMA ToleratedKinds ==
    /\ {"notFound"} \in SUBSET PowerShellErrors
    /\ {"alreadyExists"} \in SUBSET PowerShellErrors
    /\ PowerShellErrors \in SUBSET PowerShellErrors
  BY DEF PowerShellErrors, CmdletErrors

\* The range writes of a plan.
LEMMA RangeCommandsType ==
    ASSUME NEW current \in Range, NEW desired \in Range
    PROVE  range_commands(current, desired) \in Seq(Step)
  <1> DEFINE ranges == _range_transition_steps(current, desired)
  <1>1. ranges \in Seq(Range)
    BY RangeStepsAccepted
  <1> HIDE DEF ranges
  <1>2. \A i \in 1 .. Len(ranges) : Call("SetRange", ranges[i]) \in Step
    <2>1. TAKE i \in 1 .. Len(ranges)
    <2>2. [op |-> "SetRange", arg |-> ranges[i]] \in Cmdlet
      BY <1>1 DEF Cmdlet
    <2>3. QED
      BY <2>2, CallType
  <1>3. [i \in 1 .. Len(ranges) |-> Call("SetRange", ranges[i])] \in Seq(Step)
    BY <1>1, <1>2
  <1>4. QED
    BY <1>3 DEF range_commands, ranges

\* The option writes of a plan: a valid payload has both boot options or none.
LEMMA OptionsType ==
    ASSUME NEW p \in Payload, Valid(p)
    PROVE  /\ <<_set_options_command(p)>> \in Seq(Step)
           /\ _set_boot_options_commands(p) \in Seq(Step)
           /\ _remove_boot_options_commands \in Seq(Step)
  <1>1. <<_set_options_command(p)>> \in Seq(Step)
    <2>1. [op |-> "SetOptions", arg |-> [dns |-> p.dns, gateway |-> p.gateway]]
            \in Cmdlet
      BY DEF Cmdlet, Payload
    <2>2. QED
      BY <2>1, CallType DEF _set_options_command
  <1>2. _set_boot_options_commands(p) \in Seq(Step)
    <2>1. CASE p.next # None
      <3>1. p.next \in BootHosts /\ p.file \in BootFiles
        BY <2>1 DEF Payload, Valid, pxe_options_set_together
      <3>2. /\ [op |-> "SetBootHost", arg |-> p.next] \in Cmdlet
            /\ [op |-> "SetBootFile", arg |-> p.file] \in Cmdlet
        BY <3>1 DEF Cmdlet
      <3>3. /\ Call("SetBootHost", p.next) \in Step
            /\ Call("SetBootFile", p.file) \in Step
        BY <3>2, CallType
      <3>4. QED
        BY <3>3, OneOrTwo, WhenType DEF _set_boot_options_commands
    <2>2. CASE p.next = None
      BY <2>2 DEF _set_boot_options_commands, When
    <2>3. QED
      BY <2>1, <2>2
  <1>3. _remove_boot_options_commands \in Seq(Step)
    <2>1. /\ [op |-> "RemoveBootHost", arg |-> None] \in Cmdlet
          /\ [op |-> "RemoveBootFile", arg |-> None] \in Cmdlet
      BY DEF Cmdlet
    <2>2. /\ Tolerant("RemoveBootHost", None, {"notFound"}) \in Step
          /\ Tolerant("RemoveBootFile", None, {"notFound"}) \in Step
      BY <2>1, TolerantType, ToleratedKinds
    <2>3. QED
      BY <2>2, OneOrTwo DEF _remove_boot_options_commands
  <1>4. QED
    BY <1>1, <1>2, <1>3

\* The failover commands of a plan.
LEMMA FailoverType ==
    /\ \A f \in Failover : _setup_failover(f) \in Seq(Step)
    /\ \A n \in Names : _remove_scope_from_failover(n) \in Seq(Step)
    /\ _replicate_failover \in Seq(Step)
  <1>1. ASSUME NEW f \in Failover
        PROVE  _setup_failover(f) \in Seq(Step)
    <2>1. [op |-> "SetupFailover", arg |-> f] \in Lookups
      BY DEF Lookups
    <2>2. QED
      BY <2>1, CallType DEF _setup_failover
  <1>2. ASSUME NEW n \in Names
        PROVE  _remove_scope_from_failover(n) \in Seq(Step)
    <2>1. /\ [op |-> "RemoveFromRelationship", arg |-> n] \in Cmdlet
          /\ [op |-> "CleanupRelationship", arg |-> n] \in Lookups
      BY DEF Cmdlet, Lookups
    <2>2. /\ Call("RemoveFromRelationship", n) \in Step
          /\ Call("CleanupRelationship", n) \in Step
      BY <2>1, CallType
    <2>3. QED
      BY <2>2, OneOrTwo DEF _remove_scope_from_failover
  <1>3. _replicate_failover \in Seq(Step)
    <2>1. [op |-> "Replicate", arg |-> None] \in Cmdlet
      BY DEF Cmdlet
    <2>2. QED
      BY <2>1, CallType DEF _replicate_failover
  <1>4. QED
    BY <1>1, <1>2, <1>3

\* The exclusions of a plan.
LEMMA ExclusionsType ==
    ASSUME NEW xs \in SUBSET Range, NEW errors \in SUBSET PowerShellErrors
    PROVE  /\ <<Tolerant("AddExclusions", xs, errors)>> \in Seq(Step)
           /\ <<Tolerant("RemoveExclusions", xs, errors)>> \in Seq(Step)
           /\ <<Call("AddExclusions", xs)>> \in Seq(Step)
           /\ <<Call("RemoveExclusions", xs)>> \in Seq(Step)
  <1>1. /\ [op |-> "AddExclusions", arg |-> xs] \in Batches
        /\ [op |-> "RemoveExclusions", arg |-> xs] \in Batches
    BY DEF Batches
  <1>2. QED
    BY <1>1, CallType, TolerantType

\* Parts of a plan, one after the other.
LEMMA ConcatType ==
    ASSUME NEW S, NEW s \in Seq(S), NEW t \in Seq(S)
    PROVE  s \o t \in Seq(S)
  OBVIOUS

\* Creating a scope: create_scope issues well-formed cmdlets.
LEMMA CreatePlanType ==
    ASSUME NEW p \in Payload, Valid(p)
    PROVE  create_plan(p) \in Seq(Step)
  <1> DEFINE added == [mask |-> p.mask, range |-> p.range, params |-> p.params]
             adding == Tolerant("AddScope", added, {"alreadyExists"})
             exclusions ==
               When(p.exclusions # {},
                    <<Tolerant("AddExclusions", p.exclusions, {"alreadyExists"})>>)
             failover ==
               When(p.failover # None,
                    _setup_failover(p.failover) \o _replicate_failover)
  <1>1. <<adding, _set_options_command(p)>> \in Seq(Step)
    <2>1. [op |-> "AddScope", arg |-> added] \in Cmdlet
      BY DEF Cmdlet, Payload
    <2>2. adding \in Step
      BY <2>1, TolerantType, ToleratedKinds
    <2>3. _set_options_command(p) \in Step
      <3>1. [op |-> "SetOptions", arg |-> [dns |-> p.dns, gateway |-> p.gateway]]
              \in Cmdlet
        BY DEF Cmdlet, Payload
      <3>2. QED
        BY <3>1, CallType DEF _set_options_command
    <2>4. QED
      BY <2>2, <2>3, OneOrTwo
  <1>2. _set_boot_options_commands(p) \in Seq(Step)
    BY OptionsType
  <1>3. exclusions \in Seq(Step)
    <2>1. p.exclusions \in SUBSET Range
      BY DEF Payload
    <2>2. QED
      BY <2>1, ExclusionsType, WhenType, ToleratedKinds
  <1>4. failover \in Seq(Step)
    <2>1. p.failover # None => p.failover \in Failover
      BY DEF Payload
    <2>2. QED
      BY <2>1, FailoverType, WhenType, ConcatType
  <1>5. create_plan(p) = <<adding, _set_options_command(p)>>
                           \o _set_boot_options_commands(p) \o exclusions \o failover
    BY DEF create_plan
  <1> HIDE DEF adding, exclusions, failover
  <1>6. QED
    BY <1>1, <1>2, <1>3, <1>4, <1>5, ConcatType

\* The failover part of a diff.
LEMMA FailoverDiffType ==
    ASSUME NEW current \in Failover \cup {None},
           NEW desired \in Failover \cup {None}
    PROVE  _handle_failover_diff(current, desired) \in Seq(Step)
  <1>1. CASE current = None \/ desired = None
    BY <1>1, FailoverType DEF _handle_failover_diff, Failover
  <1>2. CASE current # None /\ desired # None
    <2>1. current.name \in Names
      BY <1>2 DEF Failover
    <2>2. _remove_scope_from_failover(current.name) \o _setup_failover(desired)
            \in Seq(Step)
      BY <1>2, <2>1, FailoverType, ConcatType
    <2>3. [op |-> "TuneRelationship", arg |-> desired] \in Cmdlet
      BY <1>2 DEF Cmdlet
    <2>4. When(current.tuning # desired.tuning, <<Call("TuneRelationship", desired)>>)
            \in Seq(Step)
      BY <2>3, CallType, WhenType
    <2>5. QED
      BY <1>2, <2>2, <2>4 DEF _handle_failover_diff
  <1>3. QED
    BY <1>1, <1>2

\* The parts of a diff, each a sequence of steps.
LEMMA PartsType ==
    ASSUME NEW current \in Payload, NEW desired \in Payload, Valid(desired)
    PROVE  /\ range_commands(current.range, desired.range) \in Seq(Step)
           /\ When(current.params # desired.params,
                   <<Call("SetParams", desired.params)>>) \in Seq(Step)
           /\ options_commands(current, desired) \in Seq(Step)
           /\ boot_commands(current, desired) \in Seq(Step)
           /\ exclusion_commands(current, desired) \in Seq(Step)
           /\ _handle_failover_diff(current.failover, desired.failover)
                \in Seq(Step)
  <1>1. range_commands(current.range, desired.range) \in Seq(Step)
    BY RangeCommandsType DEF Payload
  <1>2. When(current.params # desired.params,
             <<Call("SetParams", desired.params)>>) \in Seq(Step)
    <2>1. [op |-> "SetParams", arg |-> desired.params] \in Cmdlet
      BY DEF Cmdlet, Payload
    <2>2. QED
      BY <2>1, CallType, WhenType
  <1>3. options_commands(current, desired) \in Seq(Step)
    <2>1. [op |-> "RemoveRouter", arg |-> None] \in Cmdlet
      BY DEF Cmdlet
    <2>2. <<Tolerant("RemoveRouter", None, {"notFound"})>> \in Seq(Step)
      BY <2>1, TolerantType, ToleratedKinds
    <2>3. QED
      BY <2>2, OptionsType, WhenType, ConcatType DEF options_commands
  <1>4. boot_commands(current, desired) \in Seq(Step)
    BY OptionsType, WhenType DEF boot_commands
  <1>5. exclusion_commands(current, desired) \in Seq(Step)
    <2> DEFINE gone == current.exclusions \ desired.exclusions
               new == desired.exclusions \ current.exclusions
    <2>1. gone \in SUBSET Range /\ new \in SUBSET Range
      BY DEF Payload
    <2> HIDE DEF gone, new
    <2>2. /\ When(gone # {}, <<Call("RemoveExclusions", gone)>>) \in Seq(Step)
          /\ When(new # {}, <<Call("AddExclusions", new)>>) \in Seq(Step)
      BY <2>1, ExclusionsType, WhenType, ToleratedKinds
    <2>3. QED
      BY <2>2, ConcatType DEF exclusion_commands, gone, new
  <1>6. _handle_failover_diff(current.failover, desired.failover) \in Seq(Step)
    BY FailoverDiffType DEF Payload
  <1>7. QED
    BY <1>1, <1>2, <1>3, <1>4, <1>5, <1>6

\* Deleting: delete_scope issues well-formed cmdlets, whatever it read.
LEMMA DeletePlanType ==
    ASSUME NEW current \in Payload
    PROVE  delete_plan(current) \in Seq(Step)
  <1>1. /\ current.failover # None => current.failover.name \in Names
        /\ current.exclusions \in SUBSET Range
    BY DEF Payload, Failover
  <1>2. When(current.failover # None,
             _remove_scope_from_failover(current.failover.name)) \in Seq(Step)
    BY <1>1, FailoverType, WhenType
  <1>3. When(current.exclusions # {},
             <<Tolerant("RemoveExclusions", current.exclusions,
                        PowerShellErrors)>>) \in Seq(Step)
    BY <1>1, ExclusionsType, WhenType, ToleratedKinds
  <1>4. [op |-> "RemoveScope", arg |-> None] \in Cmdlet
    BY DEF Cmdlet
  <1>5. <<Call("RemoveScope", None)>> \in Seq(Step)
    BY <1>4, CallType
  <1>6. QED
    BY <1>2, <1>3, <1>5, ConcatType DEF delete_plan

\* create_scope, _converge_scope and delete_scope issue well-formed cmdlets,
\* whatever state they read and whatever is asked of them.
THEOREM PlanTypes ==
    ASSUME NEW current \in Payload, NEW desired \in Payload, Valid(desired)
    PROVE  /\ create_plan(desired) \in Seq(Step)
           /\ converge_plan(current, desired) \in Seq(Step)
           /\ delete_plan(current) \in Seq(Step)
  <1>1. changes(current, desired) \in Seq(Step)
    BY PartsType, ConcatType DEF changes
  <1>2. converge_plan(current, desired) \in Seq(Step)
    BY <1>1, FailoverType, WhenType, ConcatType DEF converge_plan
  <1>3. QED
    BY <1>2, CreatePlanType, DeletePlanType

-----------------------------------------------------------------------------
(* A diff is empty exactly when nothing differs *)

\* A concatenation is empty only if both parts are.
LEMMA EmptyConcat ==
    ASSUME NEW S, NEW s \in Seq(S), NEW t \in Seq(S)
    PROVE  s \o t = << >> <=> s = << >> /\ t = << >>
  OBVIOUS

\* A conditional part of a plan is there exactly when its condition holds.
LEMMA EmptyWhen ==
    ASSUME NEW condition \in BOOLEAN, NEW steps, steps # << >>
    PROVE  When(condition, steps) = << >> <=> ~condition
  BY DEF When

\* A sequence that starts with an element is not empty.
LEMMA NotEmpty ==
    ASSUME NEW x, NEW y
    PROVE  <<x>> # << >> /\ <<x, y>> # << >>
  OBVIOUS

\* Asking for what the scope already is issues no cmdlet, and asking for
\* anything else, other than a new mask, issues at least one: nothing requested
\* is silently dropped (_converge_scope).
THEOREM NothingToDoIffEqual ==
    ASSUME NEW current \in Payload, NEW desired \in Payload, Valid(desired),
           current.mask = desired.mask
    PROVE  converge_plan(current, desired) = << >> <=> current = desired
  <1>1. range_commands(current.range, desired.range) = << >>
          <=> current.range = desired.range
    <2> DEFINE ranges == _range_transition_steps(current.range, desired.range)
    <2>1. current.range \in Range /\ desired.range \in Range
      BY DEF Payload
    <2>2. Union(current.range, desired.range) \in Range
      BY <2>1, UnionType
    <2>3. ranges = << >> <=> current.range = desired.range
      <3>1. current.range = desired.range => ranges = << >>
        BY DEF _range_transition_steps, When
      <3>2. ranges = << >> => current.range = desired.range
        BY <2>1, RangeStepsAccepted
      <3>3. QED
        BY <3>1, <3>2
    <2>4. ranges \in Seq(Range)
      BY <2>1, RangeStepsAccepted
    <2>5. range_commands(current.range, desired.range) = << >> <=> ranges = << >>
      <3> DEFINE calls == range_commands(current.range, desired.range)
      <3>1. calls = [i \in 1 .. Len(ranges) |-> Call("SetRange", ranges[i])]
        BY DEF range_commands
      <3>2. calls \in Seq(Step)
        BY <2>1, RangeCommandsType
      <3> HIDE DEF calls, ranges
      <3>3. Len(calls) = Len(ranges)
        BY <3>1, <3>2, <2>4
      <3>4. QED
        BY <3>2, <3>3, <2>4 DEF calls
    <2>6. QED
      BY <2>3, <2>5
  <1>2. When(current.params # desired.params, <<Call("SetParams", desired.params)>>)
          = << >> <=> current.params = desired.params
    BY EmptyWhen, NotEmpty
  <1>3. options_commands(current, desired) = << >>
          <=> current.dns = desired.dns /\ current.gateway = desired.gateway
    <2> DEFINE differ == current.dns # desired.dns \/ current.gateway # desired.gateway
               clear == When(current.gateway # desired.gateway /\ desired.gateway = None,
                             <<Tolerant("RemoveRouter", None, {"notFound"})>>)
               set == <<_set_options_command(desired)>>
    <2>1. set \in Seq(Step) /\ set # << >>
      BY OptionsType, NotEmpty
    <2>2. clear \in Seq(Step)
      <3>1. [op |-> "RemoveRouter", arg |-> None] \in Cmdlet
        BY DEF Cmdlet
      <3>2. QED
        BY <3>1, TolerantType, ToleratedKinds, WhenType
    <2>3. options_commands(current, desired) = When(differ, set \o clear)
      BY DEF options_commands
    <2> HIDE DEF set, clear
    <2>4. set \o clear # << >>
      BY <2>1, <2>2, EmptyConcat
    <2>5. QED
      BY <2>3, <2>4, EmptyWhen
  <1>4. boot_commands(current, desired) = << >>
          <=> current.next = desired.next /\ current.file = desired.file
    <2> DEFINE differ == current.next # desired.next \/ current.file # desired.file
               commands == IF desired.next # None
                           THEN _set_boot_options_commands(desired)
                           ELSE _remove_boot_options_commands
    <2>1. commands # << >>
      BY NotEmpty DEF _set_boot_options_commands, _remove_boot_options_commands, When
    <2>2. boot_commands(current, desired) = When(differ, commands)
      BY DEF boot_commands
    <2> HIDE DEF commands
    <2>3. QED
      BY <2>1, <2>2, EmptyWhen
  <1>5. exclusion_commands(current, desired) = << >>
          <=> current.exclusions = desired.exclusions
    <2> DEFINE gone == current.exclusions \ desired.exclusions
               new == desired.exclusions \ current.exclusions
               removals == When(gone # {}, <<Call("RemoveExclusions", gone)>>)
               additions == When(new # {}, <<Call("AddExclusions", new)>>)
    <2>1. gone \in SUBSET Range /\ new \in SUBSET Range
      BY DEF Payload
    <2>2. removals \in Seq(Step) /\ additions \in Seq(Step)
      BY <2>1, ExclusionsType, WhenType, ToleratedKinds
    <2>3. (removals = << >> <=> gone = {}) /\ (additions = << >> <=> new = {})
      BY EmptyWhen, NotEmpty
    <2>4. exclusion_commands(current, desired) = removals \o additions
      BY DEF exclusion_commands
    <2> HIDE DEF removals, additions
    <2>5. exclusion_commands(current, desired) = << >> <=> gone = {} /\ new = {}
      BY <2>2, <2>3, <2>4, EmptyConcat
    <2>6. QED
      BY <2>5
  <1>6. _handle_failover_diff(current.failover, desired.failover) = << >>
          <=> current.failover = desired.failover
    <2> DEFINE f == current.failover
               g == desired.failover
    <2>1. f \in Failover \cup {None} /\ g \in Failover \cup {None}
      BY DEF Payload
    <2>2. None \notin Failover
      BY AbsentIsNoValue
    <2> SUFFICES _handle_failover_diff(f, g) = << >> <=> f = g
      OBVIOUS
    <2> HIDE DEF f, g
    <2>3. /\ _setup_failover(g) # << >>
          /\ _remove_scope_from_failover(f.name) # << >>
      BY NotEmpty DEF _setup_failover, _remove_scope_from_failover
    <2>4. CASE f = None \/ g = None
      <3>1. CASE f = None /\ g = None
        BY <3>1 DEF _handle_failover_diff
      <3>2. CASE f = None /\ g # None
        BY <3>2, <2>3 DEF _handle_failover_diff
      <3>3. CASE f # None /\ g = None
        BY <3>3, <2>3 DEF _handle_failover_diff
      <3>4. QED
        BY <2>4, <3>1, <3>2, <3>3
    <2>5. CASE f # None /\ g # None
      <3>1. f \in Failover /\ g \in Failover
        BY <2>1, <2>5
      <3>2. f = g <=> f.name = g.name /\ f.peer = g.peer /\ f.tuning = g.tuning
        BY <3>1 DEF Failover
      <3>3. _remove_scope_from_failover(f.name) \o _setup_failover(g) # << >>
        BY <3>1, <2>3, FailoverType, EmptyConcat DEF Failover
      <3>4. When(f.tuning # g.tuning, <<Call("TuneRelationship", g)>>) = << >>
              <=> f.tuning = g.tuning
        BY EmptyWhen, NotEmpty
      <3>5. CASE f.name # g.name \/ f.peer # g.peer
        <4>1. _handle_failover_diff(f, g)
                = _remove_scope_from_failover(f.name) \o _setup_failover(g)
          BY <2>5, <3>5 DEF _handle_failover_diff
        <4>2. QED
          BY <4>1, <3>2, <3>3, <3>5
      <3>6. CASE f.name = g.name /\ f.peer = g.peer
        <4>1. _handle_failover_diff(f, g)
                = When(f.tuning # g.tuning, <<Call("TuneRelationship", g)>>)
          BY <2>5, <3>6 DEF _handle_failover_diff
        <4>2. QED
          BY <4>1, <3>2, <3>4, <3>6
      <3>7. QED
        BY <3>5, <3>6
    <2>6. QED
      BY <2>4, <2>5
  <1>7. changes(current, desired) = << >> <=> current = desired
    <2>1. changes(current, desired) = << >> <=>
            /\ current.range = desired.range
            /\ current.params = desired.params
            /\ current.dns = desired.dns /\ current.gateway = desired.gateway
            /\ current.next = desired.next /\ current.file = desired.file
            /\ current.exclusions = desired.exclusions
            /\ current.failover = desired.failover
      BY <1>1, <1>2, <1>3, <1>4, <1>5, <1>6, PartsType, ConcatType, EmptyConcat
         DEF changes
    <2>2. QED
      BY <2>1 DEF Payload
  <1>8. converge_plan(current, desired) = << >> <=> changes(current, desired) = << >>
    <2> DEFINE replication ==
                 When(changes(current, desired) # << >> /\ desired.failover # None,
                      _replicate_failover)
    <2>1. changes(current, desired) \in Seq(Step) /\ replication \in Seq(Step)
      BY PartsType, ConcatType, FailoverType, WhenType DEF changes
    <2>2. changes(current, desired) = << >> => replication = << >>
      BY DEF When
    <2>3. converge_plan(current, desired) = changes(current, desired) \o replication
      BY DEF converge_plan
    <2> HIDE DEF replication
    <2>4. QED
      BY <2>1, <2>2, <2>3, EmptyConcat
  <1>9. QED
    BY <1>7, <1>8

-----------------------------------------------------------------------------
(* The states of the handlers *)

\* The variables of the handlers, and those of what surrounds them.
ControlType ==
    /\ queue \in [Scopes -> Seq(Requests)]
    /\ request \in [Requests -> Request \cup {None}]
    /\ pc \in [Requests -> Stages]
    /\ todo \in [Requests -> Seq(Step)]
    /\ reply \in [Requests -> Reply \cup {None}]

DataType ==
    /\ server \in Server
    /\ late \in SUBSET Script
    /\ faults \in 0 .. MaxFaults
    /\ faulted \in SUBSET Requests

\* A stage is only reached by requests it is meant for, with the body it needs.
StageMatchesRequest ==
    \A r \in Requests : pc[r] # "idle" =>
        /\ request[r] \in Request
        /\ verb(r) \in {"POST", "PUT"} => request[r].desired \in Payloads
        /\ pc[r] \in {"locking"} \cup Locked => verb(r) # "GET"
        /\ pc[r] = "create" => verb(r) = "POST"

\* A request past the lock is at the head of its scope's queue.
HolderHeadsQueue ==
    \A r \in Requests : pc[r] \in Locked =>
        /\ queue[scope(r)] # << >>
        /\ Head(queue[scope(r)]) = r

Control == ControlType /\ StageMatchesRequest /\ HolderHeadsQueue

IInv == DataType /\ Control

-----------------------------------------------------------------------------
(* Facts about the operators *)

\* Stages are strings the proofs compare.
LEMMA StagesDistinct ==
    /\ Locked \subseteq Stages
    /\ "idle" \notin Locked /\ "locking" \notin Locked
    /\ "read" \notin Locked /\ "done" \notin Locked
    /\ {"idle", "locking", "read", "done"} \subseteq Stages
  BY DEF Locked, Stages

\* The verbs and the payloads of ServiceAssumption.
LEMMA RequestFacts ==
    ASSUME NEW q \in Request
    PROVE  /\ q.verb \in {"GET", "POST", "PUT", "DELETE"}
           /\ q.scope \in Scopes
           /\ q.desired \in Payloads => q.desired \in Payload /\ Valid(q.desired)
  BY ServiceAssumption DEF Request

\* What assemble_scope_state returns is a payload, and a valid one.
LEMMA AssembledType ==
    ASSUME NEW srv \in Server, NEW s \in Scopes, Reading(srv, s) = "ok"
    PROVE  Assembled(srv, s) \in Payload /\ Valid(Assembled(srv, s))
  <1>1. srv.scopes[s] # None /\ srv.scopes[s].dns # None /\ Valid(Assembled(srv, s))
    BY DEF Reading
  <1>2. srv.scopes[s] \in ScopeConfig /\ srv.scopes[s].dns \in Dns
    BY <1>1 DEF Server, ScopeConfig
  <1>3. failover_of(srv, s) \in Failover \cup {None}
    <2>1. CASE RelationshipsOf(srv, s) = {}
      BY <2>1 DEF failover_of
    <2>2. CASE RelationshipsOf(srv, s) # {}
      <3> DEFINE n == CHOOSE n \in RelationshipsOf(srv, s) : TRUE
      <3>1. n \in RelationshipsOf(srv, s)
        BY <2>2
      <3>2. n \in Names /\ srv.rels[n] \in Relationship
        BY <3>1 DEF RelationshipsOf, Server
      <3>3. failover_of(srv, s) =
              [name |-> n, peer |-> srv.rels[n].peer, tuning |-> srv.rels[n].tuning]
        BY <2>2 DEF failover_of
      <3> HIDE DEF n
      <3>4. QED
        BY <3>2, <3>3 DEF Relationship, Failover
    <2>3. QED
      BY <2>1, <2>2
  <1>4. QED
    BY <1>1, <1>2, <1>3 DEF Assembled, Payload, ScopeConfig

\* The initial server, laid out from payloads, is a server state.
LEMMA LaidType ==
    ASSUME NEW f \in [Scopes -> Payloads \cup {None}]
    PROVE  Laid(f) \in Server
  <1>1. [s \in Scopes |-> IF f[s] = None THEN None ELSE Lay(f[s])]
          \in [Scopes -> ScopeConfig \cup {None}]
    <2>1. ASSUME NEW s \in Scopes, f[s] # None
          PROVE  Lay(f[s]) \in ScopeConfig
      <3>1. f[s] \in Payload
        BY <2>1, ServiceAssumption
      <3>2. QED
        BY <3>1 DEF Lay, Payload, ScopeConfig
    <2>2. QED
      BY <2>1
  <1>2. [n \in Names |->
           IF Joining(f, n) = {} THEN None
           ELSE LET s == CHOOSE s \in Joining(f, n) : TRUE
                IN  [peer |-> f[s].failover.peer, tuning |-> f[s].failover.tuning,
                     members |-> Joining(f, n)]]
          \in [Names -> Relationship \cup {None}]
    <2>1. ASSUME NEW n \in Names, NEW s \in Joining(f, n)
          PROVE  [peer |-> f[s].failover.peer, tuning |-> f[s].failover.tuning,
                  members |-> Joining(f, n)] \in Relationship
      <3>1. s \in Scopes /\ f[s] # None /\ f[s].failover # None
        BY DEF Joining
      <3>2. f[s] \in Payload
        BY <3>1, ServiceAssumption
      <3>3. f[s].failover \in Failover
        BY <3>1, <3>2 DEF Payload
      <3>4. Joining(f, n) \in SUBSET Scopes
        BY DEF Joining
      <3>5. QED
        BY <3>3, <3>4 DEF Failover, Relationship
    <2>2. QED
      BY <2>1
  <1>3. UNION {Joining(f, n) : n \in Names} \in SUBSET Scopes
    BY DEF Joining
  <1>4. QED
    BY <1>1, <1>2, <1>3 DEF Laid, Server

\* The next step of a write gives the server well-formed cmdlets, and leaves a
\* sequence of steps.
LEMMA IssuableType ==
    ASSUME NEW steps \in Seq(Step), steps # << >>, NEW c \in Issuable(steps)
    PROVE  c.cmdlet \in Cmdlet /\ c.rest \in Seq(Step)
  <1> DEFINE head == Head(steps)
             step == head.do
  <1>1. head \in Step /\ Tail(steps) \in Seq(Step)
    OBVIOUS
  <1>2. step \in Cmdlet \cup Batches \cup Lookups
    BY <1>1 DEF Step
  <1>3. CASE step.op \in BatchOps
    <2>1. step \in Batches
      BY <1>2, <1>3 DEF BatchOps, Cmdlet, Lookups
    <2>2. PICK x \in step.arg :
            c = [cmdlet |-> [op |-> Single[step.op], arg |-> x],
                 rest |-> When(step.arg # {x},
                               <<[head EXCEPT !.do.arg = @ \ {x}]>>)
                            \o Tail(steps)]
      BY <1>3 DEF Issuable
    <2>3. c.cmdlet \in Cmdlet
      BY <2>1, <2>2, SMTT(60) DEF Batches, Single, Cmdlet
    <2>4. [head EXCEPT !.do.arg = @ \ {x}] \in Step
      <3>1. [step EXCEPT !.arg = step.arg \ {x}] \in Batches
        BY <2>1 DEF Batches
      <3>2. [head EXCEPT !.do = [step EXCEPT !.arg = step.arg \ {x}]] \in Step
        BY <1>1, <3>1 DEF Step
      <3>3. QED
        BY <3>2
    <2> DEFINE left == [head EXCEPT !.do.arg = @ \ {x}]
               condition == step.arg # {x}
    <2>5. c.rest = When(condition, <<left>>) \o Tail(steps)
      BY <2>2
    <2>6. left \in Step
      BY <2>4
    <2> HIDE DEF left, condition
    <2>7. <<left>> \in Seq(Step)
      BY <2>6
    <2>8. When(condition, <<left>>) \in Seq(Step)
      BY <2>7, WhenType
    <2>9. c.rest \in Seq(Step)
      BY <1>1, <2>5, <2>8, ConcatType
    <2>10. QED
      BY <2>3, <2>9
  <1>4. CASE step.op \in LookupOps
    BY <1>4 DEF Issuable, LookupOps, BatchOps
  <1>5. CASE step.op \notin BatchOps \cup LookupOps
    <2>1. step \in Cmdlet
      BY <1>2, <1>5 DEF Batches, Lookups, BatchOps, LookupOps
    <2>2. c = [cmdlet |-> step, rest |-> Tail(steps)]
      BY <1>5 DEF Issuable
    <2>3. QED
      BY <1>1, <2>1, <2>2
  <1>6. QED
    BY <1>3, <1>4, <1>5

\* What becomes of a read that cannot be answered with a payload.
LEMMA ReadingCases ==
    ASSUME NEW srv, NEW s
    PROVE  Reading(srv, s) \in {"missing", "conflict", "invalid", "ok"}
  BY DEF Reading

\* Every failure is reported with a status.
LEMMA ErrorStatusType ==
    ASSUME NEW outcome \in (Outcomes \ {"ok"}) \cup {"timeout", "broken"}
    PROVE  ErrorStatus(outcome) \in Statuses
  BY DEF Outcomes, CmdletErrors, ErrorStatus, Statuses

-----------------------------------------------------------------------------
(* How a step of one request changes the handlers' variables *)

\* Answering: the request is done, and gives up the lock if it has it.
LEMMA AnswerControl ==
    ASSUME Control, NEW r \in Requests, pc[r] # "idle",
           NEW status \in Statuses, NEW body \in Payload \cup {None},
           Answer(r, status, body), request' = request
    PROVE  Control'
  <1> USE DEF Control
  <1>1. /\ reply' = [reply EXCEPT ![r] = [status |-> status, body |-> body]]
        /\ pc' = [pc EXCEPT ![r] = "done"]
        /\ todo' = [todo EXCEPT ![r] = << >>]
        /\ queue' = IF pc[r] \in Locked
                    THEN [queue EXCEPT ![scope(r)] = Tail(@)] ELSE queue
    BY DEF Answer, Release
  <1>2. scope(r) \in Scopes
    BY RequestFacts DEF StageMatchesRequest, scope
  <1>3. ControlType'
    <2>1. reply' \in [Requests -> Reply \cup {None}]
      BY <1>1 DEF ControlType, Reply
    <2>2. pc' \in [Requests -> Stages]
      BY <1>1, StagesDistinct DEF ControlType
    <2>3. todo' \in [Requests -> Seq(Step)]
      BY <1>1 DEF ControlType
    <2>4. queue' \in [Scopes -> Seq(Requests)]
      <3>1. CASE pc[r] \in Locked
        <4>1. queue[scope(r)] \in Seq(Requests) /\ queue[scope(r)] # << >>
          BY <1>2, <3>1 DEF ControlType, HolderHeadsQueue
        <4>2. Tail(queue[scope(r)]) \in Seq(Requests)
          BY <4>1
        <4>3. QED
          BY <1>1, <3>1, <4>2 DEF ControlType
      <3>2. CASE pc[r] \notin Locked
        BY <1>1, <3>2 DEF ControlType
      <3>3. QED
        BY <3>1, <3>2
    <2>5. QED
      BY <2>1, <2>2, <2>3, <2>4 DEF ControlType
  <1>4. StageMatchesRequest'
    BY <1>1, StagesDistinct DEF StageMatchesRequest, ControlType, verb
  <1>5. HolderHeadsQueue'
    <2>1. SUFFICES ASSUME NEW q \in Requests, pc'[q] \in Locked
                   PROVE  queue'[scope(q)] # << >> /\ Head(queue'[scope(q)]) = q
      BY DEF HolderHeadsQueue, scope
    <2>2. q # r /\ pc[q] \in Locked
      BY <1>1, <2>1, StagesDistinct DEF ControlType
    <2>3. queue[scope(q)] # << >> /\ Head(queue[scope(q)]) = q
      BY <2>2 DEF HolderHeadsQueue
    <2>4. pc[r] \in Locked => scope(q) # scope(r)
      BY <2>2, <2>3 DEF HolderHeadsQueue
    <2>5. scope(q) \in Scopes
      BY <2>2, RequestFacts, StagesDistinct DEF StageMatchesRequest, scope
    <2>6. queue'[scope(q)] = queue[scope(q)]
      BY <1>1, <1>2, <2>4, <2>5 DEF ControlType
    <2>7. QED
      BY <2>3, <2>6
  <1>6. QED
    BY <1>3, <1>4, <1>5

\* Going on to another stage, with the lock.
LEMMA ProceedControl ==
    ASSUME Control, NEW r \in Requests, pc[r] \in Locked,
           NEW stage \in Locked, NEW steps \in Seq(Step),
           stage = "create" => verb(r) = "POST",
           Proceed(r, stage, steps), request' = request
    PROVE  Control'
  <1> USE DEF Control
  <1>1. /\ pc' = [pc EXCEPT ![r] = stage]
        /\ todo' = [todo EXCEPT ![r] = steps]
        /\ queue' = queue /\ reply' = reply
    BY DEF Proceed
  <1>2. ControlType'
    BY <1>1, StagesDistinct DEF ControlType
  <1>3. StageMatchesRequest'
    <2>1. SUFFICES ASSUME NEW q \in Requests, pc'[q] # "idle"
                   PROVE  /\ request[q] \in Request
                          /\ verb(q) \in {"POST", "PUT"}
                               => request[q].desired \in Payloads
                          /\ pc'[q] \in {"locking"} \cup Locked => verb(q) # "GET"
                          /\ pc'[q] = "create" => verb(q) = "POST"
      BY DEF StageMatchesRequest, verb
    <2>2. CASE q = r
      BY <1>1, <2>2, StagesDistinct DEF StageMatchesRequest, ControlType
    <2>3. CASE q # r
      BY <1>1, <2>1, <2>3 DEF StageMatchesRequest, ControlType
    <2>4. QED
      BY <2>2, <2>3
  <1>4. HolderHeadsQueue'
    BY <1>1 DEF HolderHeadsQueue, ControlType, scope
  <1>5. QED
    BY <1>2, <1>3, <1>4

\* The outcome of a script: on to the next step, or the error's status.
LEMMA ConcludeControl ==
    ASSUME Control, NEW r \in Requests, pc[r] \in Locked, todo[r] # << >>,
           NEW rest \in Seq(Step),
           NEW outcome \in Outcomes \cup {"timeout", "broken"},
           Conclude(r, rest, outcome), request' = request
    PROVE  Control'
  <1>1. CASE outcome \in {"ok"} \cup Head(todo[r]).tolerates
    <2>1. Proceed(r, pc[r], rest)
      BY <1>1 DEF Conclude
    <2>2. pc[r] = "create" => verb(r) = "POST"
      BY StagesDistinct DEF Control, StageMatchesRequest
    <2>3. QED
      BY <2>1, <2>2, ProceedControl
  <1>2. CASE outcome \notin {"ok"} \cup Head(todo[r]).tolerates
    <2>1. Answer(r, ErrorStatus(outcome), None)
      BY <1>2 DEF Conclude
    <2>2. ErrorStatus(outcome) \in Statuses
      BY <1>2, ErrorStatusType
    <2>3. pc[r] # "idle"
      BY StagesDistinct
    <2>4. QED
      BY <2>1, <2>2, <2>3, AnswerControl
  <1>3. QED
    BY <1>1, <1>2

\* A read that cannot be answered with a payload.
LEMMA UnreadableControl ==
    ASSUME Control, NEW r \in Requests, pc[r] # "idle",
           NEW reading \in {"missing", "conflict", "invalid"},
           Unreadable(r, reading), request' = request
    PROVE  Control'
  <1> DEFINE status == CASE reading = "missing" -> "not_found"
                         [] reading = "conflict" -> "conflict"
                         [] reading = "invalid" -> "error"
  <1>1. status \in Statuses
    BY DEF Statuses
  <1>2. Answer(r, status, None)
    BY DEF Unreadable
  <1> HIDE DEF status
  <1>3. QED
    BY <1>1, <1>2, AnswerControl

-----------------------------------------------------------------------------
(* Each action preserves the invariant *)

\* A request arrives, in a slot of its own or one whose last request is through:
\* a writer queues behind the holder of its scope's lock, whose place it leaves
\* alone.
LEMMA RequestArrives ==
    ASSUME IInv, NEW r \in Requests, NEW q \in Request,
           pc[r] \in {"idle", "done"},
           q.verb \in {"POST", "PUT"} => q.desired \in Payloads,
           request' = [request EXCEPT ![r] = q],
           \/ q.verb = "GET" /\ pc' = [pc EXCEPT ![r] = "read"] /\ queue' = queue
           \/ /\ q.verb # "GET"
              /\ pc' = [pc EXCEPT ![r] = "locking"]
              /\ queue' = [queue EXCEPT ![q.scope] = Append(@, r)],
           todo' = todo, reply' \in [Requests -> Reply \cup {None}], DataType'
    PROVE  IInv'
  <1> USE DEF IInv, Control
  <1>1. q.scope \in Scopes
    BY RequestFacts
  <1>2. ControlType'
    <2>1. queue[q.scope] \in Seq(Requests)
      BY <1>1 DEF ControlType
    <2>2. Append(queue[q.scope], r) \in Seq(Requests)
      BY <2>1
    <2>3. queue' \in [Scopes -> Seq(Requests)]
      BY <2>2 DEF ControlType
    <2>4. QED
      BY <2>3, StagesDistinct DEF ControlType
  <1>3. StageMatchesRequest'
    BY StagesDistinct DEF StageMatchesRequest, ControlType, verb
  <1>4. HolderHeadsQueue'
    <2>1. SUFFICES ASSUME NEW w \in Requests, pc'[w] \in Locked
                   PROVE  /\ queue'[request'[w].scope] # << >>
                          /\ Head(queue'[request'[w].scope]) = w
      BY DEF HolderHeadsQueue, scope
    <2>2. w # r /\ pc[w] \in Locked /\ request'[w] = request[w]
      BY <2>1, StagesDistinct DEF ControlType
    <2> DEFINE held == queue[scope(w)]
    <2>3. held # << >> /\ Head(held) = w
      BY <2>2 DEF HolderHeadsQueue
    <2>4. scope(w) \in Scopes /\ held \in Seq(Requests)
      BY <2>2, RequestFacts, StagesDistinct DEF StageMatchesRequest, scope, ControlType
    <2>5. queue'[scope(w)] = held \/ queue'[scope(w)] = Append(held, r)
      BY <1>1, <2>4 DEF ControlType
    <2> HIDE DEF held
    <2>6. Len(Append(held, r)) = Len(held) + 1 /\ Head(Append(held, r)) = Head(held)
      BY <2>3, <2>4
    <2>7. Append(held, r) # << >>
      BY <2>4, <2>6
    <2>8. QED
      BY <2>2, <2>3, <2>5, <2>6, <2>7 DEF scope
  <1>5. QED
    BY <1>2, <1>3, <1>4

\* A client makes a request.
LEMMA SubmitStep ==
    ASSUME IInv, NEW r \in Requests, Client(r)
    PROVE  IInv'
  <1>1. PICK v \in Verbs, s \in Scopes :
          \E p \in IF v \in {"POST", "PUT"} THEN Payloads ELSE {None} :
            Submit(r, v, s, p)
    BY DEF Client
  <1>2. PICK p \in IF v \in {"POST", "PUT"} THEN Payloads ELSE {None} :
          Submit(r, v, s, p)
    BY <1>1
  <1> DEFINE q == [verb |-> v, scope |-> s, desired |-> p]
  <1>3. /\ q \in Request /\ q.verb = v /\ q.scope = s
        /\ v \in {"POST", "PUT"} => q.desired \in Payloads
    BY DEF Request
  <1>4. /\ pc[r] = "idle"
        /\ request' = [request EXCEPT ![r] = q]
        /\ UNCHANGED <<server, late, todo, reply, faults, faulted>>
        /\ \/ v = "GET" /\ pc' = [pc EXCEPT ![r] = "read"] /\ UNCHANGED queue
           \/ /\ v # "GET" /\ pc' = [pc EXCEPT ![r] = "locking"]
              /\ queue' = [queue EXCEPT ![s] = Append(@, r)]
    BY <1>2 DEF Submit
  <1> HIDE DEF q
  <1>5. DataType' /\ reply' \in [Requests -> Reply \cup {None}]
    BY <1>4 DEF IInv, Control, ControlType, DataType
  <1>6. QED
    BY <1>3, <1>4, <1>5, RequestArrives

\* Taking the lock of a scope keeps the inductive invariant.
LEMMA LockStep ==
    ASSUME IInv, NEW r \in Requests, lock(r)
    PROVE  IInv'
  <1> USE DEF IInv, Control
  <1>1. /\ pc[r] = "locking"
        /\ queue[scope(r)] # << >> /\ Head(queue[scope(r)]) = r
        /\ pc' = [pc EXCEPT ![r] = IF verb(r) = "PUT" THEN "assemble" ELSE "exists"]
        /\ UNCHANGED <<server, late, queue, request, todo, reply, faults, faulted>>
    BY DEF lock
  <1>2. {"assemble", "exists"} \subseteq Locked
    BY DEF Locked
  <1>3. DataType'
    BY <1>1 DEF DataType
  <1>4. ControlType'
    BY <1>1, <1>2, StagesDistinct DEF ControlType
  <1>5. StageMatchesRequest'
    BY <1>1, StagesDistinct DEF StageMatchesRequest, ControlType, verb
  <1>6. HolderHeadsQueue'
    BY <1>1 DEF HolderHeadsQueue, ControlType, scope
  <1>7. QED
    BY <1>3, <1>4, <1>5, <1>6

\* The actions that only read the server.
LEMMA ReadStep ==
    ASSUME IInv, NEW r \in Requests,
           \/ get_scope(r) \/ scope_exists(r) \/ assemble_to_converge(r)
           \/ assemble_to_delete(r) \/ respond(r) \/ respond_deleted(r)
    PROVE  IInv'
  <1> DEFINE s == scope(r)
             current == Assembled(server, s)
             desired == request[r].desired
  <1>1. DataType' /\ request' = request
    BY DEF IInv, DataType, get_scope, scope_exists, assemble_to_converge,
           assemble_to_delete, respond, respond_deleted
  <1>2. pc[r] # "idle"
    BY DEF get_scope, scope_exists, assemble_to_converge, assemble_to_delete,
           respond, respond_deleted
  <1>3. server \in Server /\ request[r] \in Request /\ s \in Scopes
    BY <1>2, RequestFacts DEF IInv, DataType, Control, StageMatchesRequest, scope
  <1>4. Reading(server, s) \in {"missing", "conflict", "invalid", "ok"}
    BY ReadingCases
  <1>5. Reading(server, s) = "ok" => current \in Payload
    BY <1>3, AssembledType
  <1>6. Control
    BY DEF IInv
  <1>7. {"ok", "gone", "error", "immutable_field"} \subseteq Statuses
    BY DEF Statuses
  <1>8. {"exists", "assemble", "create", "converge", "delete"} = Locked
    BY DEF Locked
  <1>9. pc[r] \in Locked => verb(r) \in {"POST", "PUT", "DELETE"}
    BY <1>2, <1>3, RequestFacts DEF IInv, Control, StageMatchesRequest, verb
  <1>10. verb(r) \in {"POST", "PUT"} => desired \in Payload /\ Valid(desired)
    BY <1>2, <1>3, RequestFacts DEF IInv, Control, StageMatchesRequest
  <1> HIDE DEF s, current, desired
  <1>11. CASE get_scope(r)
    <2>1. \/ Reading(server, s) = "ok" /\ Answer(r, "ok", current)
          \/ Reading(server, s) # "ok" /\ Unreadable(r, Reading(server, s))
      BY <1>11 DEF get_scope, s, current
    <2>2. QED
      BY <1>1, <1>2, <1>4, <1>5, <1>6, <1>7, <2>1, AnswerControl, UnreadableControl
         DEF IInv
  <1>12. CASE scope_exists(r)
    <2>1. \/ Proceed(r, "assemble", << >>)
          \/ verb(r) = "POST" /\ Proceed(r, "create", create_plan(desired))
          \/ Answer(r, "gone", None)
      BY <1>12 DEF scope_exists, desired
    <2>2. pc[r] \in Locked /\ "assemble" \in Locked /\ "create" \in Locked
      BY <1>8, <1>12 DEF scope_exists
    <2>3. verb(r) = "POST" => create_plan(desired) \in Seq(Step)
      BY <1>10, CreatePlanType
    <2>4. << >> \in Seq(Step)
      OBVIOUS
    <2>5. Control'
      BY <1>1, <1>2, <1>6, <1>7, <2>1, <2>2, <2>3, <2>4, AnswerControl, ProceedControl
    <2>6. QED
      BY <1>1, <2>5 DEF IInv
  <1>13. CASE assemble_to_converge(r)
    <2>1. \/ Reading(server, s) # "ok" /\ Unreadable(r, Reading(server, s))
          \/ Answer(r, "immutable_field", None)
          \/ /\ Reading(server, s) = "ok"
             /\ Proceed(r, "converge", converge_plan(current, desired))
      BY <1>13 DEF assemble_to_converge, s, current, desired
    <2>2. pc[r] \in Locked /\ "converge" \in Locked /\ verb(r) # "DELETE"
      BY <1>8, <1>13 DEF assemble_to_converge
    <2>3. Reading(server, s) = "ok" => converge_plan(current, desired) \in Seq(Step)
      BY <1>5, <1>9, <1>10, <2>2, PlanTypes
    <2>4. Control'
      BY <1>1, <1>2, <1>4, <1>6, <1>7, <2>1, <2>2, <2>3,
         AnswerControl, ProceedControl, UnreadableControl
    <2>5. QED
      BY <1>1, <2>4 DEF IInv
  <1>14. CASE assemble_to_delete(r)
    <2>1. \/ /\ Reading(server, s) = "ok"
             /\ Proceed(r, "delete", delete_plan(current))
          \/ Answer(r, "gone", None)
          \/ /\ Reading(server, s) \in {"conflict", "invalid"}
             /\ Unreadable(r, Reading(server, s))
      BY <1>4, <1>14 DEF assemble_to_delete, s, current
    <2>2. pc[r] \in Locked /\ "delete" \in Locked
      BY <1>8, <1>14 DEF assemble_to_delete
    <2>3. Reading(server, s) = "ok" => delete_plan(current) \in Seq(Step)
      BY <1>5, DeletePlanType
    <2>4. Control'
      BY <1>1, <1>2, <1>6, <1>7, <2>1, <2>2, <2>3,
         AnswerControl, ProceedControl, UnreadableControl
    <2>5. QED
      BY <1>1, <2>4 DEF IInv
  <1>15. CASE respond(r)
    <2>1. \/ Reading(server, s) = "ok" /\ Answer(r, "ok", current)
          \/ Answer(r, "error", None)
          \/ Reading(server, s) # "ok" /\ Unreadable(r, Reading(server, s))
      BY <1>15 DEF respond, s, current
    <2>2. QED
      BY <1>1, <1>2, <1>4, <1>5, <1>6, <1>7, <2>1, AnswerControl, UnreadableControl
         DEF IInv
  <1>16. CASE respond_deleted(r)
    <2>1. Answer(r, "gone", None)
      BY <1>16 DEF respond_deleted
    <2>2. QED
      BY <1>1, <1>2, <1>6, <1>7, <2>1, AnswerControl DEF IInv
  <1>17. QED
    BY <1>11, <1>12, <1>13, <1>14, <1>15, <1>16

\* A cmdlet, its outcome, and the faults it can meet.
LEMMA ScriptStep ==
    ASSUME IInv, NEW r \in Requests,
           \/ _run_ps(r) \/ FailCmdlet(r) \/ LeaveBehind(r) \/ Rerun(r)
    PROVE  IInv'
  <1> DEFINE s == scope(r)
  <1>1. PICK c \in Issuing(r) :
          /\ request' = request
          /\ \/ /\ server' = Run(server, s, c.cmdlet).server
                /\ Conclude(r, c.rest, Run(server, s, c.cmdlet).outcome)
                /\ UNCHANGED <<late, faults, faulted>>
             \/ \E kind \in {"failed", "timeout", "broken"} :
                  /\ Fault(kind, {r})
                  /\ server' = server \/ server' = Run(server, s, c.cmdlet).server
                  /\ Conclude(r, c.rest, kind)
                  /\ UNCHANGED late
             \/ /\ Fault("late", {r})
                /\ late' = late \cup {[scope |-> s, cmdlet |-> c.cmdlet]}
                /\ \/ /\ server' \in {server, Run(server, s, c.cmdlet).server}
                      /\ \E kind \in {"timeout", "broken"} :
                           Conclude(r, c.rest, kind)
                   \/ /\ server' = Run(server, s, c.cmdlet).server
                      /\ Conclude(r, c.rest, Run(server, s, c.cmdlet).outcome)
             \/ LET first == Run(server, s, c.cmdlet)
                    again == Run(first.server, s, c.cmdlet)
                IN  /\ Fault("rerun", {r})
                    /\ server' = again.server
                    /\ Conclude(r, c.rest, again.outcome)
                    /\ UNCHANGED late
    BY DEF _run_ps, FailCmdlet, LeaveBehind, Rerun
  <1>2. /\ pc[r] \in {"create", "converge", "delete"} /\ todo[r] # << >>
        /\ c \in Issuable(todo[r])
    BY <1>1 DEF Issuing
  <1>3. pc[r] \in Locked /\ pc[r] # "idle"
    BY <1>2 DEF Locked
  <1>4. s \in Scopes /\ server \in Server /\ todo[r] \in Seq(Step)
    BY <1>3, RequestFacts
       DEF IInv, DataType, Control, ControlType, StageMatchesRequest, scope
  <1>5. c.cmdlet \in Cmdlet /\ c.rest \in Seq(Step)
    BY <1>2, <1>4, IssuableType
  <1> HIDE DEF s
  <1>6. /\ Run(server, s, c.cmdlet).server \in Server
        /\ Run(server, s, c.cmdlet).outcome \in Outcomes
    BY <1>4, <1>5, RunType
  <1>7. \A outcome \in Outcomes \cup {"timeout", "broken"} :
          Conclude(r, c.rest, outcome) /\ request' = request => Control'
    BY <1>2, <1>3, <1>5, ConcludeControl DEF IInv
  <1>8. {"failed", "timeout", "broken"} \subseteq Outcomes \cup {"timeout", "broken"}
    BY DEF Outcomes, CmdletErrors
  <1>9. \A kind : Fault(kind, {r}) => faults' \in 0 .. MaxFaults /\ faulted' \in SUBSET Requests
    BY ServiceAssumption DEF Fault, IInv, DataType
  <1>10. [scope |-> s, cmdlet |-> c.cmdlet] \in Script
    BY <1>4, <1>5 DEF Script
  <1>11. CASE /\ server' = Run(server, s, c.cmdlet).server
              /\ Conclude(r, c.rest, Run(server, s, c.cmdlet).outcome)
              /\ UNCHANGED <<late, faults, faulted>>
    BY <1>1, <1>6, <1>7, <1>11 DEF IInv, DataType
  <1>12. ASSUME NEW kind \in {"failed", "timeout", "broken"},
                Fault(kind, {r}),
                server' = server \/ server' = Run(server, s, c.cmdlet).server,
                Conclude(r, c.rest, kind), UNCHANGED late
         PROVE  IInv'
    <2>1. Control'
      BY <1>1, <1>7, <1>8, <1>12
    <2>2. DataType'
      BY <1>6, <1>9, <1>12 DEF IInv, DataType
    <2>3. QED
      BY <2>1, <2>2 DEF IInv
  <1>13. CASE /\ Fault("late", {r})
              /\ late' = late \cup {[scope |-> s, cmdlet |-> c.cmdlet]}
              /\ \/ /\ server' \in {server, Run(server, s, c.cmdlet).server}
                    /\ \E kind \in {"timeout", "broken"} :
                         Conclude(r, c.rest, kind)
                 \/ /\ server' = Run(server, s, c.cmdlet).server
                    /\ Conclude(r, c.rest, Run(server, s, c.cmdlet).outcome)
    <2>1. Control'
      BY <1>1, <1>6, <1>7, <1>13
    <2>2. DataType'
      BY <1>6, <1>9, <1>10, <1>13 DEF IInv, DataType
    <2>3. QED
      BY <2>1, <2>2 DEF IInv
  <1>14. ASSUME NEW again, again = Run(Run(server, s, c.cmdlet).server, s, c.cmdlet),
                Fault("rerun", {r}), server' = again.server,
                Conclude(r, c.rest, again.outcome), UNCHANGED late
         PROVE  IInv'
    <2>1. again.server \in Server /\ again.outcome \in Outcomes
      BY <1>4, <1>5, <1>6, <1>14, RunType
    <2>2. Control'
      BY <1>1, <1>7, <1>14, <2>1
    <2>3. DataType'
      BY <1>9, <1>14, <2>1 DEF IInv, DataType
    <2>4. QED
      BY <2>2, <2>3 DEF IInv
  <1>15. QED
    BY <1>1, <1>11, <1>12, <1>13, <1>14

\* A lookup of a relationship, and the step it decides on.
LEMMA LookupStep ==
    ASSUME IInv, NEW r \in Requests, _fetch_failover_by_name(r)
    PROVE  IInv'
  <1> DEFINE step == Head(todo[r]).do
             attach == Tolerant("AddToRelationship", step.arg.name, {"alreadyExists"})
             create == Call("CreateRelationship", step.arg)
             setup == <<IF server.rels[step.arg.name] # None THEN attach ELSE create>>
             empty == server.rels[step.arg] # None /\ server.rels[step.arg].members = {}
             cleanup == When(empty, <<Call("RemoveRelationship", step.arg)>>)
  <1>1. /\ pc[r] \in {"create", "converge", "delete"}
        /\ todo[r] # << >>
        /\ UNCHANGED <<server, late, request, faults, faulted>>
        /\ \/ step.op = "SetupFailover" /\ Proceed(r, pc[r], setup \o Tail(todo[r]))
           \/ /\ step.op = "CleanupRelationship"
              /\ Proceed(r, pc[r], cleanup \o Tail(todo[r]))
    BY DEF _fetch_failover_by_name
  <1>2. pc[r] \in Locked
    BY <1>1 DEF Locked
  <1>3. todo[r] \in Seq(Step)
    BY DEF IInv, Control, ControlType
  <1>4. Head(todo[r]) \in Step /\ Tail(todo[r]) \in Seq(Step)
    <2>1. todo[r] # << >>
      BY <1>1
    <2>2. QED
      BY <1>3, <2>1
  <1>5. step \in Cmdlet \cup Batches \cup Lookups
    BY <1>4 DEF Step
  <1>6. /\ step.op = "SetupFailover" => step.arg \in Failover
        /\ step.op = "CleanupRelationship" => step.arg \in Names
    BY <1>5 DEF Cmdlet, Batches, Lookups
  <1>7. step.op = "SetupFailover" => setup \in Seq(Step)
    <2>1. SUFFICES ASSUME step.op = "SetupFailover" PROVE setup \in Seq(Step)
      OBVIOUS
    <2>2. step.arg \in Failover /\ step.arg.name \in Names
      BY <1>6, <2>1 DEF Failover
    <2>3. /\ [op |-> "AddToRelationship", arg |-> step.arg.name] \in Cmdlet
          /\ [op |-> "CreateRelationship", arg |-> step.arg] \in Cmdlet
      BY <2>2 DEF Cmdlet
    <2>4. attach \in Step /\ create \in Step
      BY <2>3, TolerantType, CallType, ToleratedKinds
    <2> HIDE DEF attach, create
    <2>5. QED
      BY <2>4
  <1>8. step.op = "CleanupRelationship" => cleanup \in Seq(Step)
    <2>1. SUFFICES ASSUME step.op = "CleanupRelationship" PROVE cleanup \in Seq(Step)
      OBVIOUS
    <2>2. [op |-> "RemoveRelationship", arg |-> step.arg] \in Cmdlet
      BY <1>6, <2>1 DEF Cmdlet
    <2>3. <<Call("RemoveRelationship", step.arg)>> \in Seq(Step)
      BY <2>2, CallType
    <2> HIDE DEF empty
    <2>4. QED
      BY <2>3, WhenType
  <1> HIDE DEF step, setup, cleanup
  <1>9. pc[r] = "create" => verb(r) = "POST"
    BY <1>2, StagesDistinct DEF IInv, Control, StageMatchesRequest
  <1>10. Control'
    BY <1>1, <1>2, <1>4, <1>7, <1>8, <1>9, ConcatType, ProceedControl DEF IInv
  <1>11. DataType'
    BY <1>1 DEF IInv, DataType
  <1>12. QED
    BY <1>10, <1>11 DEF IInv

\* A read that fails.
LEMMA FailReadStep ==
    ASSUME IInv, NEW r \in Requests, FailRead(r)
    PROVE  IInv'
  <1>1. pc[r] # "idle" /\ UNCHANGED <<server, late, request>>
    BY DEF FailRead
  <1>2. PICK kind \in {"failed", "timeout", "broken"} :
          Fault(kind, {r}) /\ Answer(r, ErrorStatus(kind), None)
    BY DEF FailRead
  <1>3. ErrorStatus(kind) \in Statuses
    BY ErrorStatusType DEF Outcomes, CmdletErrors
  <1>4. Control'
    BY <1>1, <1>2, <1>3, AnswerControl DEF IInv
  <1>5. DataType'
    BY <1>1, <1>2, ServiceAssumption DEF IInv, DataType, Fault
  <1>6. QED
    BY <1>4, <1>5 DEF IInv

\* A script that runs after its request has given up.
LEMMA LateStep ==
    ASSUME IInv, RunLate
    PROVE  IInv'
  <1>1. PICK script \in late :
          /\ server' = Run(server, script.scope, script.cmdlet).server
          /\ late' = late \ {script}
          /\ UNCHANGED <<queue, request, pc, todo, reply, faults, faulted>>
    BY DEF RunLate
  <1>2. script.scope \in Scopes /\ script.cmdlet \in Cmdlet
    BY DEF IInv, DataType, Script
  <1>3. DataType'
    BY <1>1, <1>2, RunType DEF IInv, DataType
  <1>4. Control'
    BY <1>1 DEF IInv, Control, ControlType, StageMatchesRequest, HolderHeadsQueue,
                scope, verb
  <1>5. QED
    BY <1>3, <1>4 DEF IInv

\* A restart frees every lock: nobody is past one afterwards.
LEMMA CrashStep ==
    ASSUME IInv, Crash
    PROVE  IInv'
  <1> DEFINE victims == {r \in Requests : pc[r] \notin {"idle", "done"}}
  <1>1. /\ Fault("crash", victims)
        /\ queue' = [s \in Scopes |-> << >>]
        /\ pc' = [r \in Requests |-> IF r \in victims THEN "done" ELSE pc[r]]
        /\ todo' = [r \in Requests |-> << >>]
        /\ UNCHANGED <<server, late, request, reply>>
    BY DEF Crash
  <1>2. \A r \in Requests : pc'[r] \in {"idle", "done"}
    BY <1>1
  <1>3. DataType'
    BY <1>1, ServiceAssumption DEF IInv, DataType, Fault
  <1>4. ControlType'
    <2>1. queue' \in [Scopes -> Seq(Requests)] /\ todo' \in [Requests -> Seq(Step)]
      BY <1>1
    <2>2. pc' \in [Requests -> Stages]
      BY <1>1, <1>2, StagesDistinct
    <2>3. QED
      BY <1>1, <2>1, <2>2 DEF IInv, Control, ControlType
  <1>5. StageMatchesRequest'
    BY <1>1, <1>2, StagesDistinct DEF IInv, Control, StageMatchesRequest, verb
  <1>6. HolderHeadsQueue'
    BY <1>2, StagesDistinct DEF HolderHeadsQueue
  <1>7. QED
    BY <1>3, <1>4, <1>5, <1>6 DEF IInv, Control

-----------------------------------------------------------------------------
(* The theorems *)

LEMMA InitIInv == Init => IInv
  <1> SUFFICES ASSUME Init PROVE IInv
    OBVIOUS
  <1>1. server \in Server
    BY LaidType DEF Init
  <1>2. DataType
    BY <1>1, ServiceAssumption DEF Init, DataType
  <1>3. ControlType
    BY StagesDistinct DEF Init, ControlType
  <1>4. StageMatchesRequest /\ HolderHeadsQueue
    BY StagesDistinct DEF Init, StageMatchesRequest, HolderHeadsQueue
  <1>5. QED
    BY <1>2, <1>3, <1>4 DEF IInv, Control

\* Every step, late scripts included, keeps the inductive invariant.
LEMMA NextIInv == IInv /\ [LateNext]_vars => IInv'
  <1> SUFFICES ASSUME IInv, [LateNext]_vars PROVE IInv'
    OBVIOUS
  <1>1. ASSUME NEW r \in Requests, Client(r) PROVE IInv'
    BY <1>1, SubmitStep
  <1>2. ASSUME NEW r \in Requests, Handle(r) \/ LeaveBehind(r) PROVE IInv'
    BY <1>2, LockStep, ReadStep, ScriptStep, LookupStep, FailReadStep DEF Handle
  <1>3. CASE RunLate
    BY <1>3, LateStep
  <1>4. CASE Crash
    BY <1>4, CrashStep
  <1>5. CASE UNCHANGED vars
    BY <1>5 DEF vars, IInv, DataType, Control, ControlType, StageMatchesRequest,
                HolderHeadsQueue, scope, verb
  <1>6. QED
    BY <1>1, <1>2, <1>3, <1>4, <1>5 DEF Next, LateNext

\* A step without late scripts is one that may have them.
LEMMA SpecIsLate == [Next]_vars => [LateNext]_vars
  BY DEF LateNext

\* The handlers never leave their state space: every cmdlet a plan holds is one
\* the server can be given, every reply carries a readable scope or none.
THEOREM TypeCorrect == Spec \/ LateSpec => []TypeOK
  <1>1. IInv => TypeOK
    BY DEF IInv, DataType, Control, ControlType, TypeOK
  <1>2. QED
    BY <1>1, SpecIsLate, InitIInv, NextIInv, PTL DEF Spec, LateSpec

\* A scope has one writer at a time, whatever the requests, the faults and the
\* order they come in, late scripts or not: the lock of locks.py excludes, and
\* every way out of a write, exceptions included, hands it to the next in line.
THEOREM MutualExclusion == Spec \/ LateSpec => []OneWriterPerScope
  <1>1. IInv => OneWriterPerScope
    BY DEF IInv, Control, HolderHeadsQueue, OneWriterPerScope
  <1>2. QED
    BY <1>1, SpecIsLate, InitIInv, NextIInv, PTL DEF Spec, LateSpec
=============================================================================
