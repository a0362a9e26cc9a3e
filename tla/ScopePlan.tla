------------------------------ MODULE ScopePlan ------------------------------
(***************************************************************************)
(* The cmdlets a write request issues, in order: what create_scope,        *)
(* _converge_scope and delete_scope of app/services/scope_service.py do to *)
(* a scope, given the state they read and the payload they were sent.      *)
(*                                                                         *)
(* A step is a cmdlet with the error kinds the call tolerates (the policy  *)
(* flags of _run_ps); a batch of cmdlets of one kind, one per exclusion,   *)
(* in any order; or a lookup, which reads a relationship and decides the   *)
(* cmdlet that follows.                                                    *)
(***************************************************************************)
EXTENDS ScopeState, Sequences

\* The PowerShellErrors a call can end in: an error record, or a timeout.
PowerShellErrors == CmdletErrors \cup {"timeout"}

Batches == [op : {"AddExclusions", "RemoveExclusions"}, arg : SUBSET Range]

Lookups ==
       [op : {"SetupFailover"}, arg : Failover]
  \cup [op : {"CleanupRelationship"}, arg : Names]

Step == [do : Cmdlet \cup Batches \cup Lookups,
         tolerates : SUBSET PowerShellErrors]

Call(op, arg) == [do |-> [op |-> op, arg |-> arg], tolerates |-> {}]

Tolerant(op, arg, errors) ==
    [do |-> [op |-> op, arg |-> arg], tolerates |-> errors]

When(condition, steps) == IF condition THEN steps ELSE << >>

-----------------------------------------------------------------------------
(* Range writes *)

Lowest(a, b) == IF a <= b THEN a ELSE b
Highest(a, b) == IF a <= b THEN b ELSE a

\* (Wrong on purpose: the variants named Wrong_... are what a plausible slip
\* would make of the definition they stand before; the properties refute them.)
Wrong_union_of_edges(current, desired) == <<current[1], desired[2]>>

Union(current, desired) ==
    <<Lowest(current[1], desired[1]), Highest(current[2], desired[2])>>

Wrong_steps_without_union(current, desired) ==
    When(current # desired, <<desired>>)

Wrong_steps_through_subnet(current, desired) ==
    When(current # desired, <<<<1, LastAddress>>, desired>>)

_range_transition_steps(current, desired) ==
    LET union == Union(current, desired)
    IN  When(current # desired,
             When(union # current, <<union>>)
               \o When(union # desired, <<desired>>))

range_commands(current, desired) ==
    LET ranges == _range_transition_steps(current, desired)
    IN  [i \in 1 .. Len(ranges) |-> Call("SetRange", ranges[i])]

-----------------------------------------------------------------------------
(* Options *)

_set_options_command(p) ==
    Call("SetOptions", [dns |-> p.dns, gateway |-> p.gateway])

Wrong_boot_options_unguarded(p) ==
    <<Call("SetBootHost", p.next), Call("SetBootFile", p.file)>>

_set_boot_options_commands(p) ==
    When(p.next # None,
         <<Call("SetBootHost", p.next), Call("SetBootFile", p.file)>>)

_remove_boot_options_commands ==
    <<Tolerant("RemoveBootHost", None, {"notFound"}),
      Tolerant("RemoveBootFile", None, {"notFound"})>>

Wrong_options_keep_router(current, desired) ==
    When(current.dns # desired.dns \/ current.gateway # desired.gateway,
         <<_set_options_command(desired)>>)

Wrong_options_always_set(current, desired) ==
    <<_set_options_command(desired)>>
      \o When(current.gateway # desired.gateway /\ desired.gateway = None,
              <<Tolerant("RemoveRouter", None, {"notFound"})>>)

options_commands(current, desired) ==
    When(\/ current.dns # desired.dns
         \/ current.gateway # desired.gateway,
         <<_set_options_command(desired)>>
           \o When(current.gateway # desired.gateway /\ desired.gateway = None,
                   <<Tolerant("RemoveRouter", None, {"notFound"})>>))

boot_commands(current, desired) ==
    When(current.next # desired.next \/ current.file # desired.file,
         IF desired.next # None THEN _set_boot_options_commands(desired)
                                ELSE _remove_boot_options_commands)

-----------------------------------------------------------------------------
(* Exclusions *)

Wrong_exclusions_only_added(current, desired) ==
    LET new == desired.exclusions \ current.exclusions
    IN  When(new # {}, <<Call("AddExclusions", new)>>)

Wrong_exclusions_replaced(current, desired) ==
    When(current.exclusions # desired.exclusions,
         When(current.exclusions # {},
              <<Call("RemoveExclusions", current.exclusions)>>)
           \o When(desired.exclusions # {},
                   <<Call("AddExclusions", desired.exclusions)>>))

exclusion_commands(current, desired) ==
    LET gone == current.exclusions \ desired.exclusions
        new  == desired.exclusions \ current.exclusions
    IN  When(gone # {}, <<Call("RemoveExclusions", gone)>>)
          \o When(new # {}, <<Call("AddExclusions", new)>>)

-----------------------------------------------------------------------------
(* Failover *)

Wrong_setup_always_creates(f) == <<Call("CreateRelationship", f)>>

_setup_failover(f) == <<Call("SetupFailover", f)>>

Wrong_leave_without_cleanup(n) == <<Call("RemoveFromRelationship", n)>>

_remove_scope_from_failover(n) ==
    <<Call("RemoveFromRelationship", n), Call("CleanupRelationship", n)>>

Wrong_sets_up_what_is_not_asked(current, desired) ==
    When(current # desired,
         When(current # None, _remove_scope_from_failover(current.name))
           \o _setup_failover(desired))

\* A change of mode, partner or role, or of the relationship itself, leaves one
\* relationship and sets up the other; percentages and lead time are set in
\* place.
_handle_failover_diff(current, desired) ==
    CASE current = None /\ desired = None -> << >>
      [] current = None /\ desired # None -> _setup_failover(desired)
      [] current # None /\ desired = None ->
           _remove_scope_from_failover(current.name)
      [] current # None /\ desired # None ->
           IF current.name # desired.name \/ current.peer # desired.peer
           THEN _remove_scope_from_failover(current.name)
                  \o _setup_failover(desired)
           ELSE When(current.tuning # desired.tuning,
                     <<Call("TuneRelationship", desired)>>)

_replicate_failover == <<Call("Replicate", None)>>

-----------------------------------------------------------------------------
(* Whole requests *)

create_plan(p) ==
    <<Tolerant("AddScope",
               [mask |-> p.mask, range |-> p.range, params |-> p.params],
               {"alreadyExists"}),
      _set_options_command(p)>>
      \o _set_boot_options_commands(p)
      \o When(p.exclusions # {},
              <<Tolerant("AddExclusions", p.exclusions,
                         {"alreadyExists"})>>)
      \o When(p.failover # None,
              _setup_failover(p.failover) \o _replicate_failover)

\* Everything up to the failover diff; non-empty exactly when the code has set
\* `changed`, together with the diff itself.
changes(current, desired) ==
    range_commands(current.range, desired.range)
      \o When(current.params # desired.params,
              <<Call("SetParams", desired.params)>>)
      \o options_commands(current, desired)
      \o boot_commands(current, desired)
      \o exclusion_commands(current, desired)
      \o _handle_failover_diff(current.failover, desired.failover)

Wrong_replicate_failover_changes_only(current, desired) ==
    changes(current, desired)
      \o When(/\ current.failover # desired.failover
              /\ desired.failover # None,
              _replicate_failover)

converge_plan(current, desired) ==
    changes(current, desired)
      \o When(changes(current, desired) # << >> /\ desired.failover # None,
              _replicate_failover)

Wrong_delete_scope_first(current) ==
    <<Call("RemoveScope", None)>>
      \o When(current.failover # None,
              _remove_scope_from_failover(current.failover.name))

Wrong_delete_ignores_errors(current) ==
    When(current.failover # None,
         _remove_scope_from_failover(current.failover.name))
      \o <<Tolerant("RemoveScope", None, PowerShellErrors)>>

delete_plan(current) ==
    When(current.failover # None,
         _remove_scope_from_failover(current.failover.name))
      \o When(current.exclusions # {},
              <<Tolerant("RemoveExclusions", current.exclusions,
                         PowerShellErrors)>>)
      \o <<Call("RemoveScope", None)>>
=============================================================================
