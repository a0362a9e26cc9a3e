------------------------- MODULE ScopeClientsProofs -------------------------
(***************************************************************************)
(* Those who use the service: the scripts that read beside its writes, and *)
(* the loop that drives it.                                                *)
(*                                                                         *)
(* What the two scripts that read are worth, for any number of scopes,     *)
(* relationships, writes and faults: a scope nothing happened to while the *)
(* script ran is reported as it is, and missing is only said of a scope    *)
(* that was.  The invariant is what is true in the middle of a script:     *)
(* what has been gathered of a scope that is untouched since is what the   *)
(* scope holds.                                                            *)
(*                                                                         *)
(* Then, a scope that is being written is not reported as asked for before *)
(* it is: no step of a plan undoes what is as asked for already (Minds),   *)
(* so that what a script has seen to be so still is (SoFar).               *)
(*                                                                         *)
(* Last, the lock keeps writers apart for clients that use a request slot  *)
(* again, and give up on a request whose handler goes on (Reconciler).     *)
(***************************************************************************)
EXTENDS ScopeReads, Reconciler, ScopeWritesProofs

rvars == <<vars, script, history>>

\* What Get-DhcpServerv4Scope shows of a configuration, and the options added.
Shown(config) ==
    [config EXCEPT !.dns = None, !.gateway = None, !.next = None, !.file = None,
                   !.exclusions = {}]

WithOptions(config) == [config EXCEPT !.exclusions = {}]

\* The scopes the script is about.
About == IF subject = None THEN Scopes ELSE {subject}

\* How far the script has come with the scopes it is about.
Progress ==
    /\ Running => \A s \in left : snapshot.scopes[s] # None
    /\ stage \in {"options", "exclusions"} => left # {}
    /\ Running => ~failure
    /\ subject # None /\ Running => snapshot.scopes[subject] # None
    /\ subject # None /\ stage \in {"options", "exclusions"} => left = {subject}
    /\ subject # None /\ stage = "failovers" => left = {}

\* What is known of a scope that has not been touched.
Known(s) ==
    IF s \notin left THEN snapshot.scopes[s] = server.scopes[s]
    ELSE /\ server.scopes[s] # None
         /\ snapshot.scopes[s] =
              IF stage = "exclusions" /\ s = Turn
              THEN WithOptions(server.scopes[s]) ELSE Shown(server.scopes[s])

QuietScopesKnown ==
    Running => \A s \in About \ touched :
        /\ Known(s)
        /\ subject = None /\ stage # "failovers" =>
             failover_of(snapshot, s) = failover_of(server, s)

\* Absences are on record.
AbsencesLost ==
    Running =>
        /\ \A s \in Scopes : ~Exists(server, s) => s \in lost
        /\ \A s \in About : snapshot.scopes[s] = None => s \in lost

ReadsInv == IInv /\ ReadsTypeOK /\ Progress /\ QuietScopesKnown /\ AbsencesLost

-----------------------------------------------------------------------------
(* Facts about the scripts *)

\* Nothing gathered is a state of no scopes.
LEMMA NothingType ==
    /\ Nothing \in Server
    /\ \A s \in Scopes : Nothing.scopes[s] = None
  BY DEF Nothing, Server

\* The scope whose turn it is is one of those left.
LEMMA TurnIsLeft == left # {} => Turn \in left
  BY DEF Turn

\* What the cmdlets show are configurations.
LEMMA ShownType ==
    ASSUME NEW config \in ScopeConfig
    PROVE  Shown(config) \in ScopeConfig /\ WithOptions(config) \in ScopeConfig
  BY DEF Shown, WithOptions, ScopeConfig

\* The first cmdlet shows a scope that exists, and nothing of another.
LEMMA BareShown ==
    ASSUME NEW s \in Scopes, server \in Server
    PROVE  /\ Bare(s) = IF Exists(server, s) THEN Shown(server.scopes[s]) ELSE None
           /\ Bare(s) \in ScopeConfig \cup {None}
           /\ Exists(server, s) <=> Bare(s) # None
  <1>1. Bare(s) = IF Exists(server, s) THEN Shown(server.scopes[s]) ELSE None
    BY DEF Bare, Shown
  <1>2. server.scopes[s] \in ScopeConfig \cup {None}
    BY DEF Server
  <1>3. Exists(server, s) => Bare(s) \in ScopeConfig /\ Bare(s) # None
    BY <1>1, <1>2, ShownType, AbsentIsNoValue DEF Exists
  <1> QED
    BY <1>1, <1>3

\* What the options of a scope are found to be.
LEMMA OptionedType ==
    ASSUME NEW s \in Scopes, server \in Server, snapshot \in Server,
           snapshot.scopes[s] # None, NEW found \in Optioned(s)
    PROVE  /\ found \in ScopeConfig \cup {None}
           /\ found = None => ~Exists(server, s)
           /\ /\ server.scopes[s] # None
              /\ snapshot.scopes[s] = Shown(server.scopes[s])
              => found = WithOptions(server.scopes[s])
  <1>1. /\ server.scopes[s] \in ScopeConfig \cup {None}
        /\ snapshot.scopes[s] \in ScopeConfig
    BY DEF Server
  <1>2. CASE Exists(server, s)
    <2>1. found = [snapshot.scopes[s] EXCEPT
                     !.dns = server.scopes[s].dns, !.gateway = server.scopes[s].gateway,
                     !.next = server.scopes[s].next, !.file = server.scopes[s].file]
      BY <1>2 DEF Optioned
    <2>2. server.scopes[s] \in ScopeConfig
      BY <1>1, <1>2 DEF Exists
    <2>3. found \in ScopeConfig
      BY <1>1, <2>1, <2>2 DEF ScopeConfig
    <2>4. snapshot.scopes[s] = Shown(server.scopes[s]) =>
            found = WithOptions(server.scopes[s])
      BY <2>1, <2>2 DEF Shown, WithOptions, ScopeConfig
    <2> QED
      BY <2>3, <2>4, AbsentIsNoValue
  <1>3. CASE ~Exists(server, s)
    BY <1>1, <1>3 DEF Optioned, Exists
  <1> QED
    BY <1>2, <1>3

\* And its exclusions.
LEMMA ExcludedType ==
    ASSUME NEW s \in Scopes, server \in Server, snapshot \in Server,
           snapshot.scopes[s] # None, NEW found \in Excluded(s)
    PROVE  /\ found \in ScopeConfig \cup {None}
           /\ found = None => ~Exists(server, s)
           /\ /\ server.scopes[s] # None
              /\ snapshot.scopes[s] = WithOptions(server.scopes[s])
              => found = server.scopes[s]
  <1>1. /\ server.scopes[s] \in ScopeConfig \cup {None}
        /\ snapshot.scopes[s] \in ScopeConfig
    BY DEF Server
  <1>2. CASE Exists(server, s)
    <2>1. found = [snapshot.scopes[s] EXCEPT !.exclusions = server.scopes[s].exclusions]
      BY <1>2 DEF Excluded
    <2>2. server.scopes[s] \in ScopeConfig
      BY <1>1, <1>2 DEF Exists
    <2>3. found \in ScopeConfig
      BY <1>1, <2>1, <2>2 DEF ScopeConfig
    <2>4. snapshot.scopes[s] = WithOptions(server.scopes[s]) =>
            found = server.scopes[s]
      BY <2>1, <2>2 DEF WithOptions, ScopeConfig
    <2> QED
      BY <2>3, <2>4, AbsentIsNoValue
  <1>3. CASE ~Exists(server, s)
    BY <1>1, <1>3 DEF Excluded, Exists
  <1> QED
    BY <1>2, <1>3

\* Failover is a matter of the relationships alone.
LEMMA SameFailover ==
    ASSUME NEW srv, NEW other, srv.rels = other.rels
    PROVE  \A t : failover_of(srv, t) = failover_of(other, t)
  <1> TAKE t
  <1>1. RelationshipsOf(srv, t) = RelationshipsOf(other, t)
    BY DEF RelationshipsOf
  <1> DEFINE names == RelationshipsOf(other, t)
             n == CHOOSE n \in names : TRUE
  <1>2. failover_of(other, t) =
          IF names = {} THEN None
          ELSE [name |-> n, peer |-> other.rels[n].peer, tuning |-> other.rels[n].tuning]
    BY Zenon DEF failover_of
  <1>3. failover_of(srv, t) =
          IF names = {} THEN None
          ELSE [name |-> n, peer |-> srv.rels[n].peer, tuning |-> srv.rels[n].tuning]
    BY <1>1, Zenon DEF failover_of
  <1> HIDE DEF names, n
  <1> QED
    BY <1>2, <1>3

\* A snapshot that takes in what is found of a scope.
LEMMA GatheredType ==
    ASSUME NEW srv \in Server, NEW s \in Scopes, NEW found \in ScopeConfig \cup {None}
    PROVE  /\ [srv EXCEPT !.scopes[s] = found] \in Server
           /\ [srv EXCEPT !.scopes[s] = found].scopes[s] = found
           /\ \A t \in Scopes : t # s =>
                [srv EXCEPT !.scopes[s] = found].scopes[t] = srv.scopes[t]
           /\ \A t : failover_of([srv EXCEPT !.scopes[s] = found], t) = failover_of(srv, t)
  <1> DEFINE new == [srv EXCEPT !.scopes[s] = found]
  <1>1. new.rels = srv.rels
    BY DEF Server
  <1>2. \A t : failover_of(new, t) = failover_of(srv, t)
    BY <1>1, SameFailover
  <1>3. /\ new \in Server /\ new.scopes[s] = found
        /\ \A t \in Scopes : t # s => new.scopes[t] = srv.scopes[t]
    BY DEF Server
  <1> QED
    BY <1>2, <1>3

\* A snapshot that takes in the relationships.
LEMMA FailoversType ==
    ASSUME NEW srv \in Server, NEW new \in Server
    PROVE  /\ [srv EXCEPT !.rels = new.rels] \in Server
           /\ [srv EXCEPT !.rels = new.rels].scopes = srv.scopes
           /\ \A t : failover_of([srv EXCEPT !.rels = new.rels], t) = failover_of(new, t)
  <1> DEFINE both == [srv EXCEPT !.rels = new.rels]
  <1>1. both \in Server /\ both.scopes = srv.scopes /\ both.rels = new.rels
    BY DEF Server
  <1>2. \A t : failover_of(both, t) = failover_of(new, t)
    BY <1>1, SameFailover
  <1> QED
    BY <1>1, <1>2

\* What is reported of a scope depends on its configuration and its failover.
LEMMA ReportSame ==
    ASSUME NEW srv, NEW other, NEW s,
           srv.scopes[s] = other.scopes[s], failover_of(srv, s) = failover_of(other, s)
    PROVE  Report(srv, s) = Report(other, s)
  <1>1. Assembled(srv, s) = Assembled(other, s)
    BY DEF Assembled
  <1>2. Reading(srv, s) = Reading(other, s)
    BY <1>1 DEF Reading
  <1> QED
    BY <1>1, <1>2 DEF Report

\* A scope is reported missing exactly if there is no configuration of it.
LEMMA ReportMissing ==
    ASSUME NEW srv, NEW s
    PROVE  /\ srv.scopes[s] = None => Report(srv, s) = Missing
           /\ srv.scopes[s] # None => Report(srv, s).status # "missing"
  <1>1. srv.scopes[s] = None => Reading(srv, s) = "missing"
    BY DEF Reading
  <1>2. srv.scopes[s] # None => Reading(srv, s) \in {"conflict", "ok", "invalid"}
    BY DEF Reading
  <1> QED
    BY <1>1, <1>2 DEF Report, Missing

-----------------------------------------------------------------------------
(* The invariant *)

\* A step of the script leaves the service as it is.
LEMMA Undisturbed ==
    ASSUME ReadsInv, UNCHANGED vars
    PROVE  /\ IInv' /\ TypeOK' /\ server' = server
           /\ \A s : Exists(server, s)' = Exists(server, s)
  <1>1. IInv'
    BY NextIInv DEF ReadsInv
  <1>2. TypeOK'
    BY <1>1 DEF IInv, DataType, Control, ControlType, TypeOK
  <1>3. server' = server
    BY DEF vars
  <1> QED
    BY <1>1, <1>2, <1>3 DEF Exists

\* The first cmdlet of the script for one scope.
LEMMA GetKeepsInv ==
    ASSUME ReadsInv, NEW s \in Scopes, build_get_scope_state_script(s)
    PROVE  ReadsInv'
  <1>1. /\ IInv' /\ TypeOK' /\ server' = server
        /\ \A t : Exists(server, t)' = Exists(server, t)
    BY Undisturbed DEF build_get_scope_state_script, Begin
  <1>2. /\ subject' = s /\ left' = {s} /\ touched' = {}
        /\ snapshot' = [Nothing EXCEPT !.scopes[s] = Bare(s)]
        /\ failure' = ~Exists(server, s)
        /\ stage' = IF Exists(server, s) THEN "options" ELSE "answered"
        /\ lost' = {t \in Scopes : ~Exists(server, t)}
        /\ writers' = {r \in Requests : pc[r] \in Locked}
    BY DEF build_get_scope_state_script, Begin
  <1>3. server \in Server
    BY DEF ReadsInv, IInv, DataType
  <1>4. /\ Bare(s) = IF Exists(server, s) THEN Shown(server.scopes[s]) ELSE None
        /\ Bare(s) \in ScopeConfig \cup {None}
        /\ Exists(server, s) <=> Bare(s) # None
    BY <1>3, BareShown
  <1>5. snapshot' \in Server /\ snapshot'.scopes[s] = Bare(s)
    BY <1>2, <1>4, NothingType, GatheredType
  <1>6. ReadsTypeOK'
    BY <1>1, <1>2, <1>5 DEF ReadsTypeOK
  <1>7. s # None
    BY ReadsAssumption
  <1>8. Progress'
    BY <1>2, <1>4, <1>5 DEF Progress, Running
  <1>9. QuietScopesKnown'
    <2> SUFFICES ASSUME Running' PROVE Known(s)'
      BY <1>2, <1>7 DEF QuietScopesKnown, About
    <2>1. Exists(server, s) /\ stage' = "options"
      BY <1>2 DEF Running
    <2> QED
      BY <1>1, <1>2, <1>4, <1>5, <2>1 DEF Known, Exists
  <1>10. AbsencesLost'
    <2> SUFFICES ASSUME Running'
                 PROVE  /\ \A t \in Scopes : ~Exists(server, t)' => t \in lost'
                        /\ snapshot'.scopes[s] # None
      BY <1>2, <1>7 DEF AbsencesLost, About
    <2>1. Exists(server, s)
      BY <1>2 DEF Running
    <2> QED
      BY <1>1, <1>2, <1>4, <1>5, <2>1
  <1> QED
    BY <1>1, <1>6, <1>8, <1>9, <1>10 DEF ReadsInv

\* The first cmdlet of the script for all.
LEMMA ListKeepsInv ==
    ASSUME ReadsInv, build_get_all_scopes_script
    PROVE  ReadsInv'
  <1>1. /\ IInv' /\ TypeOK' /\ server' = server
        /\ \A t : Exists(server, t)' = Exists(server, t)
    BY Undisturbed DEF build_get_all_scopes_script, Begin
  <1>2. /\ subject' = None /\ left' = {s \in Scopes : Exists(server, s)} /\ touched' = {}
        /\ snapshot' = [Nothing EXCEPT !.scopes = [s \in Scopes |-> Bare(s)]]
        /\ failure' = FALSE /\ stage' = "failovers"
        /\ lost' = {t \in Scopes : ~Exists(server, t)}
        /\ writers' = {r \in Requests : pc[r] \in Locked}
    BY DEF build_get_all_scopes_script, Begin
  <1>3. server \in Server
    BY DEF ReadsInv, IInv, DataType
  <1>4. \A s \in Scopes :
          /\ Bare(s) = IF Exists(server, s) THEN Shown(server.scopes[s]) ELSE None
          /\ Bare(s) \in ScopeConfig \cup {None}
          /\ Exists(server, s) <=> Bare(s) # None
    BY <1>3, BareShown
  <1>5. /\ snapshot' \in Server
        /\ \A s \in Scopes : snapshot'.scopes[s] = Bare(s)
    BY <1>2, <1>4, NothingType DEF Server
  <1>6. ReadsTypeOK'
    BY <1>1, <1>2, <1>5 DEF ReadsTypeOK
  <1>7. Progress'
    BY <1>2, <1>4, <1>5 DEF Progress, Running
  <1>8. QuietScopesKnown'
    <2> SUFFICES ASSUME NEW s \in Scopes PROVE Known(s)'
      BY <1>2 DEF QuietScopesKnown, About
    <2>1. server.scopes[s] = None \/ server.scopes[s] # None
      OBVIOUS
    <2> QED
      BY <1>1, <1>2, <1>4, <1>5 DEF Known, Exists
  <1>9. AbsencesLost'
    BY <1>1, <1>2, <1>4, <1>5 DEF AbsencesLost, About
  <1> QED
    BY <1>1, <1>6, <1>7, <1>8, <1>9 DEF ReadsInv

\* A cmdlet that reads options.
LEMMA OptionsKeepInv ==
    ASSUME ReadsInv, read_options
    PROVE  ReadsInv'
  <1> DEFINE t == Turn
  <1>1. /\ IInv' /\ TypeOK' /\ server' = server
        /\ \A s : Exists(server, s)' = Exists(server, s)
    BY Undisturbed DEF read_options
  <1>2. PICK found \in Optioned(t) : Gather(found, "exclusions")
    BY DEF read_options
  <1>3. /\ stage = "options" /\ subject' = subject /\ left' = left
        /\ touched' = touched /\ lost' = lost /\ writers' = writers
    BY DEF read_options, history
  <1>4. Turn' = Turn
    BY <1>3 DEF Turn
  <1>5. /\ server \in Server /\ snapshot \in Server /\ left \subseteq Scopes
        /\ Running /\ ~failure /\ t \in left /\ snapshot.scopes[t] # None
    BY <1>3, TurnIsLeft DEF ReadsInv, IInv, DataType, ReadsTypeOK, Progress, Running
  <1> HIDE DEF t
  <1>6. /\ found \in ScopeConfig \cup {None}
        /\ /\ server.scopes[t] # None
           /\ snapshot.scopes[t] = Shown(server.scopes[t])
           => found = WithOptions(server.scopes[t])
    BY <1>5, OptionedType
  <1>7. CASE found = None
    <2>1. stage' = "answered" /\ failure' = TRUE /\ snapshot' = snapshot
      BY <1>2, <1>7 DEF Gather
    <2>2. ReadsTypeOK'
      BY <1>1, <1>3, <2>1 DEF ReadsInv, ReadsTypeOK
    <2>3. Progress' /\ QuietScopesKnown' /\ AbsencesLost'
      BY <2>1 DEF Progress, QuietScopesKnown, AbsencesLost, Running
    <2> QED
      BY <1>1, <2>2, <2>3 DEF ReadsInv
  <1>8. CASE found # None
    <2>1. /\ snapshot' = [snapshot EXCEPT !.scopes[t] = found]
          /\ stage' = "exclusions" /\ failure' = failure
      BY <1>2, <1>8 DEF Gather, t
    <2>2. /\ snapshot' \in Server /\ snapshot'.scopes[t] = found
          /\ \A s \in Scopes : s # t => snapshot'.scopes[s] = snapshot.scopes[s]
          /\ \A s : failover_of(snapshot', s) = failover_of(snapshot, s)
      BY <1>5, <1>6, <2>1, GatheredType
    <2>3. ReadsTypeOK'
      BY <1>1, <1>3, <2>1, <2>2 DEF ReadsInv, ReadsTypeOK
    <2>4. Progress'
      BY <1>3, <1>5, <1>8, <2>1, <2>2 DEF ReadsInv, Progress, Running, ReadsTypeOK
    <2>5. QuietScopesKnown'
      <3> SUFFICES ASSUME NEW s \in About \ touched
                   PROVE  /\ Known(s)'
                          /\ subject = None =>
                               failover_of(snapshot', s) = failover_of(server, s)
        BY <1>1, <1>3 DEF QuietScopesKnown, About
      <3>1. /\ Known(s) /\ s \in Scopes
            /\ subject = None => failover_of(snapshot, s) = failover_of(server, s)
        BY <1>3, <1>5 DEF ReadsInv, QuietScopesKnown, About, ReadsTypeOK
      <3>2. Known(s)'
        <4>1. CASE s = t
          BY <1>1, <1>3, <1>4, <1>5, <1>6, <2>1, <2>2, <3>1, <4>1 DEF Known, t
        <4>2. CASE s # t
          BY <1>1, <1>3, <1>4, <2>1, <2>2, <3>1, <4>2 DEF Known, t
        <4> QED
          BY <4>1, <4>2
      <3> QED
        BY <2>2, <3>1, <3>2
    <2>6. AbsencesLost'
      BY <1>1, <1>3, <1>5, <1>8, <2>2 DEF ReadsInv, AbsencesLost, About, ReadsTypeOK
    <2> QED
      BY <1>1, <2>3, <2>4, <2>5, <2>6 DEF ReadsInv
  <1> QED
    BY <1>7, <1>8

\* A cmdlet that reads exclusions.
LEMMA ExclusionsKeepInv ==
    ASSUME ReadsInv, read_exclusions
    PROVE  ReadsInv'
  <1> DEFINE t == Turn
             then == IF left' # {} THEN "options"
                     ELSE IF subject # None THEN "failovers" ELSE "answered"
  <1>1. /\ IInv' /\ TypeOK' /\ server' = server
        /\ \A s : Exists(server, s)' = Exists(server, s)
    BY Undisturbed DEF read_exclusions
  <1>2. PICK found \in Excluded(t) : Gather(found, then)
    BY DEF read_exclusions
  <1>3. /\ stage = "exclusions" /\ subject' = subject /\ left' = left \ {t}
        /\ touched' = touched /\ lost' = lost /\ writers' = writers
    BY DEF read_exclusions, history
  <1>4. /\ server \in Server /\ snapshot \in Server /\ left \subseteq Scopes
        /\ Running /\ ~failure /\ t \in left /\ snapshot.scopes[t] # None
    BY <1>3, TurnIsLeft DEF ReadsInv, IInv, DataType, ReadsTypeOK, Progress, Running
  <1> HIDE DEF t
  <1>5. /\ found \in ScopeConfig \cup {None}
        /\ /\ server.scopes[t] # None
           /\ snapshot.scopes[t] = WithOptions(server.scopes[t])
           => found = server.scopes[t]
    BY <1>4, ExcludedType
  <1>6. CASE found = None
    <2>1. stage' = "answered" /\ failure' = TRUE /\ snapshot' = snapshot
      BY <1>2, <1>6 DEF Gather
    <2>2. ReadsTypeOK'
      BY <1>1, <1>3, <2>1 DEF ReadsInv, ReadsTypeOK
    <2>3. Progress' /\ QuietScopesKnown' /\ AbsencesLost'
      BY <2>1 DEF Progress, QuietScopesKnown, AbsencesLost, Running
    <2> QED
      BY <1>1, <2>2, <2>3 DEF ReadsInv
  <1>7. CASE found # None
    <2>1. /\ snapshot' = [snapshot EXCEPT !.scopes[t] = found]
          /\ stage' = then /\ failure' = failure
      BY <1>2, <1>7 DEF Gather, t
    <2>2. /\ snapshot' \in Server /\ snapshot'.scopes[t] = found
          /\ \A s \in Scopes : s # t => snapshot'.scopes[s] = snapshot.scopes[s]
          /\ \A s : failover_of(snapshot', s) = failover_of(snapshot, s)
      BY <1>4, <1>5, <2>1, GatheredType
    <2>3. ReadsTypeOK'
      BY <1>1, <1>3, <2>1, <2>2 DEF ReadsInv, ReadsTypeOK
    <2>4. Progress'
      BY <1>3, <1>4, <1>7, <2>1, <2>2 DEF ReadsInv, Progress, Running, ReadsTypeOK
    <2>5. QuietScopesKnown'
      <3> SUFFICES ASSUME NEW s \in About \ touched
                   PROVE  /\ Known(s)'
                          /\ subject = None =>
                               failover_of(snapshot', s) = failover_of(server, s)
        BY <1>1, <1>3 DEF QuietScopesKnown, About
      <3>1. /\ Known(s) /\ s \in Scopes
            /\ subject = None => failover_of(snapshot, s) = failover_of(server, s)
        BY <1>3, <1>4 DEF ReadsInv, QuietScopesKnown, About, ReadsTypeOK
      <3>2. stage' # "exclusions"
        BY <2>1
      <3>3. Known(s)'
        <4>1. CASE s = t
          BY <1>1, <1>3, <1>4, <1>5, <2>2, <3>1, <4>1 DEF Known, t
        <4>2. CASE s # t
          BY <1>1, <1>3, <2>2, <3>1, <3>2, <4>2 DEF Known, t
        <4> QED
          BY <4>1, <4>2
      <3> QED
        BY <2>2, <3>1, <3>3
    <2>6. AbsencesLost'
      BY <1>1, <1>3, <1>4, <1>7, <2>2 DEF ReadsInv, AbsencesLost, About, ReadsTypeOK
    <2> QED
      BY <1>1, <2>3, <2>4, <2>5, <2>6 DEF ReadsInv
  <1> QED
    BY <1>6, <1>7

\* The cmdlet that reads the relationships.
LEMMA FailoversKeepInv ==
    ASSUME ReadsInv, read_failovers
    PROVE  ReadsInv'
  <1>1. /\ IInv' /\ TypeOK' /\ server' = server
        /\ \A s : Exists(server, s)' = Exists(server, s)
    BY Undisturbed DEF read_failovers
  <1>2. /\ stage = "failovers" /\ subject' = subject /\ left' = left /\ failure' = failure
        /\ touched' = touched /\ lost' = lost /\ writers' = writers
        /\ snapshot' = [snapshot EXCEPT !.rels = server.rels]
        /\ stage' = IF left = {} THEN "answered" ELSE "options"
    BY DEF read_failovers, history
  <1>3. /\ server \in Server /\ snapshot \in Server /\ left \subseteq Scopes
        /\ Running /\ ~failure
    BY <1>2 DEF ReadsInv, IInv, DataType, ReadsTypeOK, Progress, Running
  <1>4. /\ snapshot' \in Server /\ snapshot'.scopes = snapshot.scopes
        /\ \A s : failover_of(snapshot', s) = failover_of(server, s)
    BY <1>2, <1>3, FailoversType
  <1>5. ReadsTypeOK'
    BY <1>1, <1>2, <1>4 DEF ReadsInv, ReadsTypeOK
  <1>6. Progress'
    BY <1>2, <1>3, <1>4 DEF ReadsInv, Progress, Running
  <1>7. QuietScopesKnown'
    <2> SUFFICES ASSUME NEW s \in About \ touched
                 PROVE  Known(s)' /\ failover_of(snapshot', s) = failover_of(server', s)
      BY <1>2 DEF QuietScopesKnown, About
    <2>1. Known(s)
      BY <1>3 DEF ReadsInv, QuietScopesKnown
    <2> QED
      BY <1>1, <1>2, <1>4, <2>1 DEF Known
  <1>8. AbsencesLost'
    BY <1>1, <1>2, <1>3, <1>4 DEF ReadsInv, AbsencesLost, About
  <1> QED
    BY <1>1, <1>5, <1>6, <1>7, <1>8 DEF ReadsInv

\* A step of the writes.
LEMMA WriteKeepsInv ==
    ASSUME ReadsInv, Write
    PROVE  ReadsInv'
  <1>1. IInv'
    BY NextIInv, SpecIsLate DEF ReadsInv, Write
  <1>2. TypeOK'
    BY <1>1 DEF IInv, DataType, Control, ControlType, TypeOK
  <1>3. /\ subject' = subject /\ stage' = stage /\ left' = left
        /\ snapshot' = snapshot /\ failure' = failure
    BY DEF Write, script
  <1>4. Turn' = Turn
    BY <1>3 DEF Turn
  <1>5. CASE Running
    <2>1. /\ touched' = touched \cup {s \in Scopes : View(server', s) # View(server, s)}
          /\ lost' = lost \cup {s \in Scopes : ~Exists(server', s)}
          /\ writers' = writers \cup {r \in Requests : pc'[r] \in Locked}
      BY <1>5 DEF Write
    <2>2. ReadsTypeOK'
      BY <1>2, <1>3, <2>1 DEF ReadsInv, ReadsTypeOK
    <2>3. Progress'
      BY <1>3 DEF ReadsInv, Progress, Running
    <2>4. QuietScopesKnown'
      <3> SUFFICES ASSUME NEW s \in About \ touched'
                   PROVE  /\ Known(s)'
                          /\ subject = None /\ stage # "failovers" =>
                               failover_of(snapshot, s) = failover_of(server', s)
        BY <1>3 DEF QuietScopesKnown, About
      <3>1. s \in Scopes
        BY DEF About, ReadsInv, ReadsTypeOK
      <3>2. /\ server'.scopes[s] = server.scopes[s]
            /\ failover_of(server', s) = failover_of(server, s)
        BY <2>1, <3>1 DEF View
      <3>3. /\ Known(s)
            /\ subject = None /\ stage # "failovers" =>
                 failover_of(snapshot, s) = failover_of(server, s)
        BY <1>5, <2>1 DEF ReadsInv, QuietScopesKnown
      <3> QED
        BY <1>3, <1>4, <3>2, <3>3 DEF Known
    <2>5. AbsencesLost'
      BY <1>3, <1>5, <2>1 DEF ReadsInv, AbsencesLost, About
    <2> QED
      BY <1>1, <2>2, <2>3, <2>4, <2>5 DEF ReadsInv
  <1>6. CASE ~Running
    <2>1. touched' = touched /\ lost' = lost /\ writers' = writers
      BY <1>6 DEF Write, history
    <2>2. ReadsTypeOK'
      BY <1>2, <1>3, <2>1 DEF ReadsInv, ReadsTypeOK
    <2>3. Progress' /\ QuietScopesKnown' /\ AbsencesLost'
      BY <1>3, <1>6 DEF ReadsInv, Progress, QuietScopesKnown, AbsencesLost, Running
    <2> QED
      BY <1>1, <2>2, <2>3 DEF ReadsInv
  <1> QED
    BY <1>5, <1>6

\* At the start nothing has been read.
LEMMA InitReadsInv == ReadsInit => ReadsInv
  <1> SUFFICES ASSUME ReadsInit PROVE ReadsInv
    OBVIOUS
  <1>1. IInv
    BY InitIInv DEF ReadsInit
  <1>2. TypeOK
    BY <1>1 DEF IInv, DataType, Control, ControlType, TypeOK
  <1>3. ReadsTypeOK
    BY <1>2, NothingType DEF ReadsInit, ReadsTypeOK
  <1>4. Progress /\ QuietScopesKnown /\ AbsencesLost
    BY DEF ReadsInit, Progress, QuietScopesKnown, AbsencesLost, Running
  <1> QED
    BY <1>1, <1>3, <1>4 DEF ReadsInv

\* Every step keeps the invariant.
LEMMA NextReadsInv == ReadsInv /\ [ReadsNext]_rvars => ReadsInv'
  <1> SUFFICES ASSUME ReadsInv, [ReadsNext]_rvars PROVE ReadsInv'
    OBVIOUS
  <1>1. CASE \E s \in Scopes : build_get_scope_state_script(s)
    BY <1>1, GetKeepsInv
  <1>2. CASE build_get_all_scopes_script
    BY <1>2, ListKeepsInv
  <1>3. CASE read_options
    BY <1>3, OptionsKeepInv
  <1>4. CASE read_exclusions
    BY <1>4, ExclusionsKeepInv
  <1>5. CASE read_failovers
    BY <1>5, FailoversKeepInv
  <1>6. CASE Write
    BY <1>6, WriteKeepsInv
  <1>7. CASE UNCHANGED rvars
    <2>1. /\ IInv' /\ TypeOK' /\ server' = server
          /\ \A s : Exists(server, s)' = Exists(server, s)
      BY <1>7, Undisturbed DEF rvars
    <2>2. /\ subject' = subject /\ stage' = stage /\ left' = left
          /\ snapshot' = snapshot /\ failure' = failure
          /\ touched' = touched /\ lost' = lost /\ writers' = writers
      BY <1>7 DEF rvars, script, history
    <2>3. ReadsTypeOK' /\ Progress' /\ AbsencesLost'
      BY <2>1, <2>2 DEF ReadsInv, ReadsTypeOK, Progress, AbsencesLost, About, Running
    <2>4. Turn' = Turn
      BY <2>2 DEF Turn
    <2>5. QuietScopesKnown'
      BY <2>1, <2>2, <2>4 DEF ReadsInv, QuietScopesKnown, Known, About, Running
    <2> QED
      BY <2>1, <2>3, <2>5 DEF ReadsInv
  <1> QED
    BY <1>1, <1>2, <1>3, <1>4, <1>5, <1>6, <1>7 DEF ReadsNext

\* In every state a script can find itself in.
LEMMA AlwaysReadsInv == ReadsSpec => []ReadsInv
  <1> QED
    BY InitReadsInv, NextReadsInv, PTL DEF ReadsSpec, rvars

\* ReadsTypeOK: the state of a script that reads is well-formed
\* (the scripts of ps_parsers.py).
THEOREM ReadsTypeCorrect == ReadsSpec => []ReadsTypeOK
  <1>1. ReadsInv => ReadsTypeOK
    BY DEF ReadsInv
  <1> QED
    BY <1>1, AlwaysReadsInv, PTL

-----------------------------------------------------------------------------
(* Answers *)

\* A script that fails has met a scope that is gone: its own, or one that it
\* had begun with.  One that ends well knows what it reports on.
LEMMA AnswersKnown ==
    ASSUME ReadsInv, ReadsNext, Answering
    PROVE  /\ failure' =>
                /\ \A s \in ReportedOn : ~Exists(server, s) /\ s \in lost'
                /\ \E s \in lost' : snapshot'.scopes[s] # None \/ s = subject'
           /\ ~failure' =>
                /\ \A s \in ReportedOn \ touched' :
                     /\ snapshot'.scopes[s] = server.scopes[s]
                     /\ failover_of(snapshot', s) = failover_of(server, s)
                /\ \A s \in ReportedOn : snapshot'.scopes[s] = None => s \in lost'
  <1>1. /\ server \in Server /\ snapshot \in Server /\ left \subseteq Scopes
        /\ subject \in Scopes \cup {None}
    BY DEF ReadsInv, IInv, DataType, ReadsTypeOK
  <1>2. CASE \E s \in Scopes : build_get_scope_state_script(s)
    <2>1. PICK s \in Scopes : build_get_scope_state_script(s)
      BY <1>2
    <2>2. /\ ~Exists(server, s) /\ failure' /\ subject' = s /\ s # None
          /\ lost' = {t \in Scopes : ~Exists(server, t)}
      BY <2>1, ReadsAssumption DEF build_get_scope_state_script, Begin, Answering
    <2> QED
      BY <2>2 DEF ReportedOn
  <1>3. CASE build_get_all_scopes_script
    BY <1>3 DEF build_get_all_scopes_script, Answering
  <1>4. CASE read_options
    <2> DEFINE t == Turn
    <2>1. PICK found \in Optioned(t) : Gather(found, "exclusions")
      BY <1>4 DEF read_options
    <2>2. found = None /\ failure' /\ snapshot' = snapshot
      BY <2>1 DEF Gather, Answering
    <2>3. stage = "options" /\ subject' = subject /\ lost' = lost
      BY <1>4 DEF read_options, history
    <2>4. Running /\ t \in left /\ snapshot.scopes[t] # None
      BY <2>3, TurnIsLeft DEF ReadsInv, Progress, Running
    <2> HIDE DEF t
    <2>5. ~Exists(server, t)
      BY <1>1, <2>1, <2>2, <2>4, OptionedType
    <2>6. t \in lost
      BY <1>1, <2>4, <2>5 DEF ReadsInv, AbsencesLost
    <2>7. subject # None => t = subject
      BY <2>3, <2>4 DEF ReadsInv, Progress
    <2> QED
      BY <2>2, <2>3, <2>4, <2>5, <2>6, <2>7 DEF ReportedOn
  <1>5. CASE read_exclusions
    <2> DEFINE t == Turn
               then == IF left' # {} THEN "options"
                       ELSE IF subject # None THEN "failovers" ELSE "answered"
    <2>1. PICK found \in Excluded(t) : Gather(found, then)
      BY <1>5 DEF read_exclusions
    <2>2. /\ stage = "exclusions" /\ subject' = subject
          /\ lost' = lost /\ touched' = touched /\ left' = left \ {t}
      BY <1>5 DEF read_exclusions, history
    <2>3. Running /\ t \in left /\ snapshot.scopes[t] # None /\ ~failure
      BY <2>2, TurnIsLeft DEF ReadsInv, Progress, Running
    <2> HIDE DEF t
    <2>4. /\ found \in ScopeConfig \cup {None}
          /\ found = None => ~Exists(server, t)
          /\ /\ server.scopes[t] # None
             /\ snapshot.scopes[t] = WithOptions(server.scopes[t])
             => found = server.scopes[t]
      BY <1>1, <2>1, <2>3, ExcludedType
    <2>5. CASE found = None
      <3>1. failure' /\ snapshot' = snapshot
        BY <2>1, <2>5 DEF Gather
      <3>2. t \in lost
        BY <1>1, <2>3, <2>4, <2>5 DEF ReadsInv, AbsencesLost
      <3>3. subject # None => t = subject
        BY <2>2, <2>3 DEF ReadsInv, Progress
      <3> QED
        BY <2>2, <2>3, <2>4, <2>5, <3>1, <3>2, <3>3 DEF ReportedOn
    <2>6. CASE found # None
      <3>1. /\ snapshot' = [snapshot EXCEPT !.scopes[t] = found]
            /\ stage' = then /\ failure' = failure
        BY <2>1, <2>6 DEF Gather, t
      <3>2. /\ snapshot'.scopes[t] = found
            /\ \A s \in Scopes : s # t => snapshot'.scopes[s] = snapshot.scopes[s]
            /\ \A s : failover_of(snapshot', s) = failover_of(snapshot, s)
        BY <1>1, <2>3, <2>4, <3>1, GatheredType
      <3>3. left' = {} /\ subject = None
        BY <3>1 DEF Answering
      <3>4. ~failure' /\ ReportedOn = Scopes /\ About = Scopes
        BY <2>2, <2>3, <3>1, <3>3 DEF ReportedOn, About
      <3>5. ASSUME NEW s \in Scopes \ touched'
            PROVE  /\ snapshot'.scopes[s] = server.scopes[s]
                   /\ failover_of(snapshot', s) = failover_of(server, s)
        <4>1. Known(s) /\ failover_of(snapshot, s) = failover_of(server, s)
          BY <2>2, <2>3, <3>3, <3>4, <3>5 DEF ReadsInv, QuietScopesKnown
        <4>2. CASE s = t
          BY <2>2, <2>3, <2>4, <3>2, <4>1, <4>2 DEF Known, t
        <4>3. CASE s # t
          BY <2>2, <2>3, <3>2, <3>3, <4>1, <4>3 DEF Known, t
        <4> QED
          BY <4>2, <4>3
      <3>6. ASSUME NEW s \in Scopes, snapshot'.scopes[s] = None PROVE s \in lost'
        <4>1. snapshot.scopes[s] = None
          BY <2>6, <3>2, <3>6
        <4> QED
          BY <2>2, <2>3, <3>4, <4>1 DEF ReadsInv, AbsencesLost
      <3> QED
        BY <3>4, <3>5, <3>6
    <2> QED
      BY <2>5, <2>6
  <1>6. CASE read_failovers
    <2>1. /\ stage = "failovers" /\ subject' = subject /\ left' = left
          /\ failure' = failure /\ lost' = lost /\ touched' = touched
          /\ snapshot' = [snapshot EXCEPT !.rels = server.rels] /\ left = {}
      BY <1>6 DEF read_failovers, history, Answering
    <2>2. Running /\ ~failure
      BY <2>1 DEF ReadsInv, Progress, Running
    <2>3. /\ snapshot'.scopes = snapshot.scopes
          /\ \A s : failover_of(snapshot', s) = failover_of(server, s)
      BY <1>1, <2>1, FailoversType
    <2>4. ReportedOn = About
      BY <2>1, <2>2 DEF ReportedOn, About
    <2>5. \A s \in About \ touched : snapshot.scopes[s] = server.scopes[s]
      BY <2>1, <2>2 DEF ReadsInv, QuietScopesKnown, Known
    <2>6. \A s \in About : snapshot.scopes[s] = None => s \in lost
      BY <2>2 DEF ReadsInv, AbsencesLost
    <2> QED
      BY <2>1, <2>2, <2>3, <2>4, <2>5, <2>6
  <1>7. CASE Write
    BY <1>7 DEF Write, script, Answering
  <1> QED
    BY <1>2, <1>3, <1>4, <1>5, <1>6, <1>7 DEF ReadsNext

\* QuietScopesReadTrue: whatever other requests do while a GET or a listing
\* runs, a scope they leave alone is reported as it is
\* (build_get_scope_state_script and build_get_all_scopes_script).
THEOREM QuietScopesAreReadTrue == ReadsSpec => QuietScopesReadTrue
  <1>1. ReadsInv /\ [ReadsNext]_rvars =>
          [Answering => \A s \in ReportedOn \ touched' : Reported(s) = Report(server, s)
            ]_<<vars, script, history>>
    <2> SUFFICES ASSUME ReadsInv, ReadsNext, Answering, NEW s \in ReportedOn \ touched'
                 PROVE  Reported(s) = Report(server, s)
      BY DEF rvars
    <2>1. CASE failure'
      <3>1. ~Exists(server, s) /\ subject' # None
        BY <2>1, AnswersKnown DEF ReportedOn
      <3>2. Reported(s) = Missing
        BY <2>1, <3>1 DEF Reported, get_scope_report
      <3> QED
        BY <3>1, <3>2, ReportMissing DEF Exists
    <2>2. CASE ~failure'
      <3>1. Reported(s) = Report(snapshot', s)
        BY <2>2 DEF Reported, get_scope_report, list_scopes, Report, Reading, Assembled
      <3>2. /\ snapshot'.scopes[s] = server.scopes[s]
            /\ failover_of(snapshot', s) = failover_of(server, s)
        BY <2>2, AnswersKnown
      <3> QED
        BY <3>1, <3>2, ReportSame
    <2> QED
      BY <2>1, <2>2
  <1> QED
    BY <1>1, AlwaysReadsInv, PTL DEF ReadsSpec, QuietScopesReadTrue, rvars

\* MissingWasMissing: a scope is only reported missing, which has Crossplane
\* create it, if it was missing at some moment while the script ran.
THEOREM MissingScopesWereMissing == ReadsSpec => MissingWasMissing
  <1>1. ReadsInv /\ [ReadsNext]_rvars =>
          [Answering =>
              /\ \A s \in ReportedOn : Reported(s).status = "missing" => s \in lost'
              /\ failure' => \E s \in lost' : snapshot'.scopes[s] # None \/ s = subject'
            ]_<<vars, script, history>>
    <2> SUFFICES ASSUME ReadsInv, ReadsNext, Answering
                 PROVE  /\ \A s \in ReportedOn :
                             Reported(s).status = "missing" => s \in lost'
                        /\ failure' =>
                             \E s \in lost' : snapshot'.scopes[s] # None \/ s = subject'
      BY DEF rvars
    <2>1. ASSUME NEW s \in ReportedOn, Reported(s).status = "missing" PROVE s \in lost'
      <3>1. CASE failure'
        BY <3>1, AnswersKnown
      <3>2. CASE ~failure'
        <4>1. Reported(s) = Report(snapshot', s)
          BY <3>2 DEF Reported, get_scope_report, list_scopes, Report, Reading, Assembled
        <4>2. snapshot'.scopes[s] = None
          BY <2>1, <4>1, ReportMissing
        <4> QED
          BY <3>2, <4>2, AnswersKnown
      <3> QED
        BY <3>1, <3>2
    <2> QED
      BY <2>1, AnswersKnown
  <1> QED
    BY <1>1, AlwaysReadsInv, PTL DEF ReadsSpec, MissingWasMissing, rvars

-----------------------------------------------------------------------------
(* A read among the steps of one write *)

\* The options, the relationships that have been read.
OptionsSeen(s) == s \notin left \/ (stage = "exclusions" /\ s = Turn)

FailoversSeen == IF subject = None THEN stage # "failovers" ELSE stage = "answered"

\* What has been read of the scope of the write r, and is as r asks for, is so
\* still.
SoFar(r) ==
    LET s == scope(r)
        desired == request[r].desired
        seen == snapshot.scopes[s]
        held == server.scopes[s]
    IN  s \in About /\ verb(r) # "DELETE" /\ seen # None =>
          /\ held # None
          /\ BareKept(seen, held, desired)
          /\ OptionsSeen(s) => OptionsKept(seen, held, desired)
          /\ s \notin left => ExclusionsKept(seen, held, desired)
          /\ FailoversSeen /\ failover_of(snapshot, s) = desired.failover =>
               failover_of(server, s) = desired.failover

\* The history has every write past a lock, without which nothing is touched.
Books ==
    /\ Running =>
         /\ \A r \in Requests : pc[r] \in Locked => r \in writers
         /\ writers = {} => touched = {}
    /\ \A r \in writers : pc[r] # "idle"
    /\ stage = "answered" /\ ~failure => left = {}

Holding ==
    \A r \in Requests : writers = {r} /\ stage # "idle" /\ ~failure => SoFar(r)

SInv == ReadsInv /\ KInv /\ Books /\ Holding

\* As long as nothing is touched, all that has been read is so still.
LEMMA UntouchedSoFar ==
    ASSUME ReadsInv', touched' = {}, Running', NEW r \in Requests
    PROVE  SoFar(r)'
  <1>1. PICK s : s = request'[r].scope
    OBVIOUS
  <1>2. SUFFICES ASSUME s \in About', snapshot'.scopes[s] # None
                 PROVE  /\ server'.scopes[s] # None
                        /\ BareKept(snapshot'.scopes[s], server'.scopes[s],
                                    request'[r].desired)
                        /\ OptionsSeen(s)' =>
                             OptionsKept(snapshot'.scopes[s], server'.scopes[s],
                                         request'[r].desired)
                        /\ s \notin left' =>
                             ExclusionsKept(snapshot'.scopes[s], server'.scopes[s],
                                            request'[r].desired)
                        /\ FailoversSeen' =>
                             failover_of(snapshot', s) = failover_of(server', s)
    BY <1>1 DEF SoFar, scope
  <1>3. s \in Scopes /\ server' \in Server
    BY <1>2 DEF About, ReadsInv, ReadsTypeOK, IInv, DataType
  <1>4. /\ Known(s)'
        /\ subject' = None /\ stage' # "failovers" =>
             failover_of(snapshot', s) = failover_of(server', s)
    BY <1>2 DEF ReadsInv, QuietScopesKnown
  <1>5. FailoversSeen' => failover_of(snapshot', s) = failover_of(server', s)
    BY <1>4 DEF FailoversSeen, Running
  <1>6. CASE s \notin left'
    <2>1. snapshot'.scopes[s] = server'.scopes[s]
      BY <1>4, <1>6 DEF Known
    <2>2. QED
      BY <1>2, <1>5, <2>1 DEF BareKept, OptionsKept, ExclusionsKept
  <1>7. CASE s \in left'
    <2>1. /\ server'.scopes[s] # None
          /\ snapshot'.scopes[s] = IF stage' = "exclusions" /\ s = Turn'
                                   THEN WithOptions(server'.scopes[s])
                                   ELSE Shown(server'.scopes[s])
      BY <1>4, <1>7 DEF Known
    <2>2. server'.scopes[s] \in ScopeConfig
      BY <1>3, <2>1 DEF Server
    <2>3. BareKept(snapshot'.scopes[s], server'.scopes[s], request'[r].desired)
      BY <2>1, <2>2 DEF BareKept, Shown, WithOptions, ScopeConfig
    <2>4. OptionsSeen(s)' => snapshot'.scopes[s] = WithOptions(server'.scopes[s])
      BY <1>7, <2>1 DEF OptionsSeen
    <2>5. OptionsSeen(s)' =>
            OptionsKept(snapshot'.scopes[s], server'.scopes[s], request'[r].desired)
      BY <2>2, <2>4 DEF OptionsKept, WithOptions, ScopeConfig
    <2>6. QED
      BY <1>5, <1>7, <2>1, <2>3, <2>5
  <1>8. QED
    BY <1>6, <1>7

\* What the script leaves of the service.
LEMMA ServiceStays ==
    ASSUME SInv, ReadsNext, UNCHANGED vars
    PROVE  /\ ReadsInv' /\ KInv' /\ server' = server /\ request' = request /\ pc' = pc
           /\ \A r : scope(r)' = scope(r) /\ verb(r)' = verb(r)
  <1>1. ReadsInv' /\ KInv'
    BY NextReadsInv, NextKInv DEF SInv
  <1>2. QED
    BY <1>1 DEF vars, scope, verb

\* A script begins.
LEMMA BeginKeepsSInv ==
    ASSUME SInv,
           \/ \E s \in Scopes : build_get_scope_state_script(s)
           \/ build_get_all_scopes_script
    PROVE  SInv'
  <1>1. /\ touched' = {} /\ writers' = {r \in Requests : pc[r] \in Locked}
        /\ UNCHANGED vars /\ ReadsNext
        /\ stage' \in {"options", "answered", "failovers"}
        /\ stage' = "answered" => failure'
    BY DEF build_get_scope_state_script, build_get_all_scopes_script, Begin, ReadsNext
  <1>2. ReadsInv' /\ KInv' /\ pc' = pc
    BY <1>1, ServiceStays
  <1>3. Books'
    BY <1>1, <1>2, StagesDistinct DEF Books
  <1>4. ASSUME NEW r \in Requests, ~failure' PROVE SoFar(r)'
    <2>1. Running'
      BY <1>1, <1>4 DEF Running
    <2>2. QED
      BY <1>1, <1>2, <2>1, UntouchedSoFar
  <1>5. QED
    BY <1>2, <1>3, <1>4 DEF SInv, Holding

\* The step of a script adds what is so when it is read.
LEMMA OptionsKeepSInv ==
    ASSUME SInv, read_options
    PROVE  SInv'
  <1> DEFINE t == Turn
  <1>1. ReadsNext /\ UNCHANGED vars
    BY DEF read_options, ReadsNext
  <1>2. /\ ReadsInv' /\ KInv' /\ server' = server /\ request' = request /\ pc' = pc
        /\ \A r : scope(r)' = scope(r) /\ verb(r)' = verb(r)
    BY <1>1, ServiceStays
  <1>3. PICK found \in Optioned(t) : Gather(found, "exclusions")
    BY DEF read_options
  <1>4. /\ stage = "options" /\ subject' = subject /\ left' = left
        /\ touched' = touched /\ writers' = writers
    BY DEF read_options, history
  <1>5. /\ server \in Server /\ snapshot \in Server /\ left \subseteq Scopes
        /\ Running /\ ~failure /\ t \in left /\ snapshot.scopes[t] # None
    BY <1>4, TurnIsLeft
       DEF SInv, ReadsInv, IInv, DataType, ReadsTypeOK, Progress, Running
  <1>6. Turn' = t
    BY <1>4 DEF Turn
  <1>7. CASE found = None
    <2>1. stage' = "answered" /\ failure'
      BY <1>3, <1>7 DEF Gather
    <2>2. QED
      BY <1>2, <1>4, <2>1 DEF SInv, Books, Holding, Running
  <1>8. CASE found # None
    <2>1. /\ snapshot' = [snapshot EXCEPT !.scopes[t] = found]
          /\ stage' = "exclusions" /\ failure' = failure
      BY <1>3, <1>8 DEF Gather
    <2>2. Books'
      BY <1>2, <1>4, <1>5, <2>1 DEF SInv, Books, Running
    <2> HIDE DEF t
    <2>3. found \in ScopeConfig \cup {None}
      BY <1>3, <1>5, OptionedType
    <2>4. /\ snapshot'.scopes[t] = found
          /\ \A u \in Scopes : u # t => snapshot'.scopes[u] = snapshot.scopes[u]
          /\ \A u : failover_of(snapshot', u) = failover_of(snapshot, u)
      BY <1>5, <2>1, <2>3, GatheredType
    <2>5. ASSUME NEW r \in Requests, writers' = {r} PROVE SoFar(r)'
      <3>1. PICK s : s = scope(r)
        OBVIOUS
      <3>2. PICK desired : desired = request[r].desired
        OBVIOUS
      <3>3. SUFFICES ASSUME s \in About, verb(r) # "DELETE", snapshot'.scopes[s] # None
                     PROVE  /\ server.scopes[s] # None
                            /\ BareKept(snapshot'.scopes[s], server.scopes[s], desired)
                            /\ s \notin left \/ s = t =>
                                 OptionsKept(snapshot'.scopes[s], server.scopes[s], desired)
                            /\ s \notin left =>
                                 ExclusionsKept(snapshot'.scopes[s], server.scopes[s],
                                                desired)
                            /\ subject = None /\ failover_of(snapshot, s) = desired.failover
                                 => failover_of(server, s) = desired.failover
        BY <1>2, <1>4, <1>6, <2>1, <2>4, <3>1, <3>2
           DEF SoFar, About, OptionsSeen, FailoversSeen
      <3>4. SoFar(r)
        BY <1>4, <1>5, <2>5 DEF SInv, Holding
      <3>5. s \in Scopes
        BY <3>3 DEF About, SInv, ReadsInv, ReadsTypeOK
      <3>6. snapshot.scopes[s] # None
        BY <1>5, <2>4, <3>3, <3>5
      <3>7. /\ server.scopes[s] # None
            /\ BareKept(snapshot.scopes[s], server.scopes[s], desired)
            /\ s \notin left => OptionsKept(snapshot.scopes[s], server.scopes[s], desired)
            /\ s \notin left => ExclusionsKept(snapshot.scopes[s], server.scopes[s], desired)
            /\ subject = None /\ failover_of(snapshot, s) = desired.failover
                 => failover_of(server, s) = desired.failover
        BY <1>4, <3>1, <3>2, <3>3, <3>4, <3>6 DEF SoFar, OptionsSeen, FailoversSeen
      <3>8. CASE s # t
        BY <2>4, <3>5, <3>7, <3>8
      <3>9. CASE s = t
        <4>1. found = [snapshot.scopes[s] EXCEPT
                         !.dns = server.scopes[s].dns,
                         !.gateway = server.scopes[s].gateway,
                         !.next = server.scopes[s].next,
                         !.file = server.scopes[s].file]
          BY <1>3, <3>7, <3>9 DEF Optioned, Exists
        <4>2. snapshot.scopes[s] \in ScopeConfig
          BY <1>5, <3>5, <3>6 DEF Server
        <4>3. /\ found.mask = snapshot.scopes[s].mask
              /\ found.range = snapshot.scopes[s].range
              /\ found.params = snapshot.scopes[s].params
              /\ found.dns = server.scopes[s].dns
              /\ found.gateway = server.scopes[s].gateway
              /\ found.next = server.scopes[s].next
              /\ found.file = server.scopes[s].file
          BY <4>1, <4>2 DEF ScopeConfig
        <4>4. snapshot'.scopes[s] = found /\ s \in left
          BY <1>5, <2>4, <3>9
        <4>5. BareKept(snapshot'.scopes[s], server.scopes[s], desired)
          BY <3>7, <4>3, <4>4 DEF BareKept
        <4>6. OptionsKept(snapshot'.scopes[s], server.scopes[s], desired)
          BY <4>3, <4>4 DEF OptionsKept
        <4>7. QED
          BY <3>7, <4>4, <4>5, <4>6
      <3>10. QED
        BY <3>8, <3>9
    <2>6. QED
      BY <1>2, <2>2, <2>5 DEF SInv, Holding
  <1>9. QED
    BY <1>7, <1>8

\* Reading the exclusions keeps the invariant of the reads.
LEMMA ExclusionsKeepSInv ==
    ASSUME SInv, read_exclusions
    PROVE  SInv'
  <1> DEFINE t == Turn
             then == IF left' # {} THEN "options"
                     ELSE IF subject # None THEN "failovers" ELSE "answered"
  <1>1. ReadsNext /\ UNCHANGED vars
    BY DEF read_exclusions, ReadsNext
  <1>2. /\ ReadsInv' /\ KInv' /\ server' = server /\ request' = request /\ pc' = pc
        /\ \A r : scope(r)' = scope(r) /\ verb(r)' = verb(r)
    BY <1>1, ServiceStays
  <1>3. PICK found \in Excluded(t) : Gather(found, then)
    BY DEF read_exclusions
  <1>4. /\ stage = "exclusions" /\ subject' = subject /\ left' = left \ {t}
        /\ touched' = touched /\ writers' = writers
    BY DEF read_exclusions, history
  <1>5. /\ server \in Server /\ snapshot \in Server /\ left \subseteq Scopes
        /\ Running /\ ~failure /\ t \in left /\ snapshot.scopes[t] # None
    BY <1>4, TurnIsLeft
       DEF SInv, ReadsInv, IInv, DataType, ReadsTypeOK, Progress, Running
  <1>6. CASE found = None
    <2>1. stage' = "answered" /\ failure'
      BY <1>3, <1>6 DEF Gather
    <2>2. QED
      BY <1>2, <1>4, <2>1 DEF SInv, Books, Holding, Running
  <1>7. CASE found # None
    <2>1. /\ snapshot' = [snapshot EXCEPT !.scopes[t] = found]
          /\ stage' = then /\ failure' = failure
      BY <1>3, <1>7 DEF Gather
    <2>2. /\ stage' \in {"options", "failovers", "answered"}
          /\ stage' = "answered" => left' = {} /\ subject = None
      BY <2>1
    <2>3. Books'
      BY <1>2, <1>4, <1>5, <2>2 DEF SInv, Books, Running
    <2>4. t = Turn
      OBVIOUS
    <2> HIDE DEF t, then
    <2>5. found \in ScopeConfig \cup {None}
      BY <1>3, <1>5, ExcludedType
    <2>6. /\ snapshot'.scopes[t] = found
          /\ \A u \in Scopes : u # t => snapshot'.scopes[u] = snapshot.scopes[u]
          /\ \A u : failover_of(snapshot', u) = failover_of(snapshot, u)
      BY <1>5, <2>1, <2>5, GatheredType
    <2>7. ASSUME NEW r \in Requests, writers' = {r} PROVE SoFar(r)'
      <3>1. PICK s : s = scope(r)
        OBVIOUS
      <3>2. PICK desired : desired = request[r].desired
        OBVIOUS
      <3>3. /\ OptionsSeen(s)' => s \notin left \/ s = t
            /\ FailoversSeen' => subject = None
        BY <1>4, <2>2 DEF OptionsSeen, FailoversSeen
      <3>4. SUFFICES ASSUME s \in About, verb(r) # "DELETE", snapshot'.scopes[s] # None
                     PROVE  /\ server.scopes[s] # None
                            /\ BareKept(snapshot'.scopes[s], server.scopes[s], desired)
                            /\ s \notin left \/ s = t =>
                                 OptionsKept(snapshot'.scopes[s], server.scopes[s], desired)
                            /\ s \notin left \/ s = t =>
                                 ExclusionsKept(snapshot'.scopes[s], server.scopes[s],
                                                desired)
                            /\ subject = None /\ failover_of(snapshot, s) = desired.failover
                                 => failover_of(server, s) = desired.failover
        BY <1>2, <1>4, <2>6, <3>1, <3>2, <3>3 DEF SoFar, About
      <3>5. SoFar(r)
        BY <1>4, <1>5, <2>7 DEF SInv, Holding
      <3>6. s \in Scopes
        BY <3>4 DEF About, SInv, ReadsInv, ReadsTypeOK
      <3>7. snapshot.scopes[s] # None
        BY <1>5, <2>6, <3>4, <3>6
      <3>8. /\ server.scopes[s] # None
            /\ BareKept(snapshot.scopes[s], server.scopes[s], desired)
            /\ s \notin left \/ s = t =>
                 OptionsKept(snapshot.scopes[s], server.scopes[s], desired)
            /\ s \notin left => ExclusionsKept(snapshot.scopes[s], server.scopes[s], desired)
            /\ subject = None /\ failover_of(snapshot, s) = desired.failover
                 => failover_of(server, s) = desired.failover
        BY <1>4, <2>4, <3>1, <3>2, <3>4, <3>5, <3>7 DEF SoFar, OptionsSeen, FailoversSeen
      <3>9. CASE s # t
        BY <2>6, <3>6, <3>8, <3>9
      <3>10. CASE s = t
        <4>1. found = [snapshot.scopes[s] EXCEPT !.exclusions = server.scopes[s].exclusions]
          BY <1>3, <3>8, <3>10 DEF Excluded, Exists
        <4>2. snapshot.scopes[s] \in ScopeConfig
          BY <1>5, <3>6, <3>7 DEF Server
        <4>3. /\ found.mask = snapshot.scopes[s].mask
              /\ found.range = snapshot.scopes[s].range
              /\ found.params = snapshot.scopes[s].params
              /\ found.dns = snapshot.scopes[s].dns
              /\ found.gateway = snapshot.scopes[s].gateway
              /\ found.next = snapshot.scopes[s].next
              /\ found.file = snapshot.scopes[s].file
              /\ found.exclusions = server.scopes[s].exclusions
          BY <4>1, <4>2 DEF ScopeConfig
        <4>4. snapshot'.scopes[s] = found
          BY <2>6, <3>10
        <4>5. BareKept(snapshot'.scopes[s], server.scopes[s], desired)
          BY <3>8, <4>3, <4>4 DEF BareKept
        <4>6. OptionsKept(snapshot'.scopes[s], server.scopes[s], desired)
          BY <3>8, <3>10, <4>3, <4>4 DEF OptionsKept
        <4>7. ExclusionsKept(snapshot'.scopes[s], server.scopes[s], desired)
          BY <4>3, <4>4 DEF ExclusionsKept
        <4>8. QED
          BY <3>8, <4>5, <4>6, <4>7
      <3>11. QED
        BY <3>9, <3>10
    <2>8. QED
      BY <1>2, <2>3, <2>7 DEF SInv, Holding
  <1>8. QED
    BY <1>6, <1>7

\* Reading the relationships keeps the invariant of the reads.
LEMMA FailoversKeepSInv ==
    ASSUME SInv, read_failovers
    PROVE  SInv'
  <1>1. ReadsNext /\ UNCHANGED vars
    BY DEF read_failovers, ReadsNext
  <1>2. /\ ReadsInv' /\ KInv' /\ server' = server /\ request' = request /\ pc' = pc
        /\ \A r : scope(r)' = scope(r) /\ verb(r)' = verb(r)
    BY <1>1, ServiceStays
  <1>3. /\ stage = "failovers" /\ subject' = subject /\ left' = left /\ failure' = failure
        /\ touched' = touched /\ writers' = writers
        /\ snapshot' = [snapshot EXCEPT !.rels = server.rels]
        /\ stage' = IF left = {} THEN "answered" ELSE "options"
    BY DEF read_failovers, history
  <1>4. server \in Server /\ snapshot \in Server /\ Running /\ ~failure
    BY <1>3 DEF SInv, ReadsInv, IInv, DataType, ReadsTypeOK, Progress, Running
  <1>5. /\ snapshot'.scopes = snapshot.scopes
        /\ \A u : failover_of(snapshot', u) = failover_of(server, u)
    BY <1>3, <1>4, FailoversType
  <1>6. Books'
    BY <1>2, <1>3, <1>4 DEF SInv, Books, Running
  <1>7. ASSUME NEW r \in Requests, writers' = {r} PROVE SoFar(r)'
    <2>1. SoFar(r)
      BY <1>3, <1>4, <1>7 DEF SInv, Holding
    <2>2. PICK s : s = scope(r)
      OBVIOUS
    <2>3. OptionsSeen(s)' => OptionsSeen(s)
      BY <1>3 DEF OptionsSeen
    <2>4. QED
      BY <1>2, <1>3, <1>5, <2>1, <2>2, <2>3 DEF SoFar, About
  <1>8. QED
    BY <1>2, <1>6, <1>7 DEF SInv, Holding

\* Requests that were past a lock have not gone back to idle.
LEMMA IdleIsBefore ==
    ASSUME KInv, Next, NEW r \in Requests, pc[r] # "idle"
    PROVE  pc'[r] # "idle" /\ request'[r] = request[r]
  BY StepForms DEF Alone

\* The server changes by the hand of a write past its lock.
LEMMA ChangesAreIssued ==
    ASSUME KInv, Next, server' # server
    PROVE  \E r \in Requests : Issues(r) /\ pc[r] \in Locked
  <1>1. PICK r \in Requests : Rests(r) \/ SetsOut(r) \/ LooksUp(r) \/ Issues(r)
    BY StepForms
  <1>2. Issues(r)
    BY <1>1 DEF Rests, SetsOut, LooksUp
  <1>3. QED
    BY <1>2 DEF Issues, Locked

\* The script of a write keeps what has been read as it asks.
LEMMA IssuesKeepSoFar ==
    ASSUME KInv, Next, NEW r \in Requests, Issues(r), SoFar(r),
           UNCHANGED script
    PROVE  SoFar(r)'
  <1>a. PICK s : s = scope(r)
    OBVIOUS
  <1>b. PICK desired : desired = request[r].desired
    OBVIOUS
  <1>1. /\ request' = request /\ pc[r] \in {"create", "converge", "delete"}
        /\ todo[r] # << >>
    BY DEF Issues
  <1>2. /\ subject' = subject /\ stage' = stage /\ left' = left
        /\ snapshot' = snapshot /\ failure' = failure
    BY DEF script
  <1>3. Turn' = Turn
    BY <1>2 DEF Turn
  <1>4. SUFFICES ASSUME s \in About, verb(r) # "DELETE", snapshot.scopes[s] # None
                 PROVE  SoFar(r)'
    BY <1>a, <1>1, <1>2 DEF SoFar, About, scope, verb
  <1>5. PICK issued \in Issuable(todo[r]), outcome \in Outcomes \cup {"timeout", "broken"} :
          Took(server, s, issued.cmdlet, server', outcome)
    BY <1>a DEF Issues
  <1>6. /\ s \in Scopes /\ server \in Server /\ todo[r] \in Seq(Step)
        /\ desired \in Payload
    BY <1>a, <1>b, <1>1, <1>4, HolderFacts DEF KInv, PInv, Locked
  <1>7. issued.cmdlet \in Cmdlet /\ issued.rest \in Seq(Step)
    BY <1>1, <1>5, <1>6, IssuableType
  <1>8. Advance(todo[r], issued.cmdlet, issued.rest)
    BY <1>1, <1>5, <1>6, IssuableAdvances
  <1>9. pc[r] \in {"create", "converge"}
    BY <1>1, <1>4 DEF KInv, DeletesByVerb
  <1>10. /\ Minds(server, s, todo[r], desired)
         /\ Writing(server.scopes[s], todo[r], desired)
    BY <1>a, <1>b, <1>9 DEF KInv, PInv, WritesMind, WritesOnTheWay
  <1>11. OneRelationship(server)
    BY DEF KInv, PInv
  <1>12. /\ server.scopes[s] # None
         /\ BareKept(snapshot.scopes[s], server.scopes[s], desired)
         /\ OptionsSeen(s) => OptionsKept(snapshot.scopes[s], server.scopes[s], desired)
         /\ s \notin left => ExclusionsKept(snapshot.scopes[s], server.scopes[s], desired)
         /\ FailoversSeen /\ failover_of(snapshot, s) = desired.failover =>
              failover_of(server, s) = desired.failover
    BY <1>a, <1>b, <1>4 DEF SoFar
  <1>13. /\ OptionsSeen(s)' <=> OptionsSeen(s)
         /\ FailoversSeen' <=> FailoversSeen
    BY <1>2, <1>3 DEF OptionsSeen, FailoversSeen
  <1>14. /\ scope(r)' = s /\ request'[r].desired = desired
    BY <1>a, <1>b, <1>1 DEF scope
  <1>15. Harmless(server, s, issued.cmdlet, desired)
    BY <1>1, <1>6, <1>7, <1>8, <1>10, MindsHarmless
  <1>16. Kept(server, server', s, desired)
    BY <1>5, <1>6, <1>7, <1>11, <1>12, <1>15, TookKept DEF Exists
  <1>17. /\ server'.scopes[s] # None
         /\ BareKept(snapshot.scopes[s], server'.scopes[s], desired)
         /\ OptionsSeen(s) => OptionsKept(snapshot.scopes[s], server'.scopes[s], desired)
         /\ s \notin left => ExclusionsKept(snapshot.scopes[s], server'.scopes[s], desired)
         /\ FailoversSeen /\ failover_of(snapshot, s) = desired.failover =>
              failover_of(server', s) = desired.failover
    BY <1>12, <1>16
       DEF Kept, FieldsKept, BareKept, OptionsKept, ExclusionsKept, Exists
  <1>18. QED
    BY <1>2, <1>13, <1>14, <1>17 DEF SoFar

\* A step of the writes.
LEMMA WriteKeepsSInv ==
    ASSUME SInv, Write
    PROVE  SInv'
  <1>1. ReadsInv' /\ KInv'
    BY WriteKeepsInv, NextKInv DEF SInv, Write
  <1>2. /\ Next /\ KInv /\ UNCHANGED script
        /\ subject' = subject /\ stage' = stage /\ left' = left
        /\ snapshot' = snapshot /\ failure' = failure /\ stage # "answered"
    BY DEF Write, script, SInv
  <1>3. Turn' = Turn
    BY <1>2 DEF Turn
  <1>4. CASE Running
    <2>1. /\ touched' = touched \cup {s \in Scopes : View(server', s) # View(server, s)}
          /\ writers' = writers \cup {r \in Requests : pc'[r] \in Locked}
      BY <1>4 DEF Write
    <2>2. Running'
      BY <1>2, <1>4 DEF Running
    <2>3. /\ \A r \in Requests : pc[r] \in Locked => r \in writers
          /\ writers = {} => touched = {}
          /\ \A r \in writers : pc[r] # "idle"
          /\ writers \subseteq Requests
      BY <1>4 DEF SInv, Books, ReadsInv, ReadsTypeOK
    <2>4. writers = {} => server' = server
      BY <1>2, <2>3, ChangesAreIssued
    <2>5. writers = {} => touched' = {}
      BY <2>1, <2>3, <2>4
    <2>6. Books'
      <3>1. \A r \in writers' : pc'[r] # "idle"
        BY <1>2, <2>1, <2>3, IdleIsBefore, StagesDistinct
      <3>2. QED
        BY <1>2, <2>1, <2>5, <3>1 DEF Books
    <2>7. ASSUME NEW r \in Requests, writers' = {r}, ~failure PROVE SoFar(r)'
      <3>1. CASE writers = {}
        BY <1>1, <2>2, <2>5, <3>1, UntouchedSoFar
      <3>2. CASE writers = {r}
        <4>1. SoFar(r)
          BY <1>4, <2>7, <3>2 DEF SInv, Holding, Running
        <4>2. CASE server' # server
          <5>1. Issues(r)
            BY <1>2, <2>3, <3>2, <4>2, ChangesAreIssued
          <5>2. QED
            BY <1>2, <4>1, <5>1, IssuesKeepSoFar
        <4>3. CASE server' = server
          <5>1. request'[r] = request[r]
            BY <1>2, <2>3, <3>2, IdleIsBefore
          <5>2. scope(r)' = scope(r) /\ verb(r)' = verb(r)
            BY <5>1 DEF scope, verb
          <5>3. QED
            BY <1>2, <1>3, <4>1, <4>3, <5>1, <5>2
               DEF SoFar, About, OptionsSeen, FailoversSeen
        <4>4. QED
          BY <4>2, <4>3
      <3>3. QED
        BY <2>1, <2>7, <3>1, <3>2
    <2>8. Holding'
      BY <1>2, <2>7 DEF Holding
    <2>9. QED
      BY <1>1, <2>6, <2>8 DEF SInv
  <1>5. CASE ~Running
    <2>1. stage' = "idle" /\ ~Running' /\ writers' = writers
      BY <1>2, <1>5 DEF Write, history, Running, SInv, ReadsInv, ReadsTypeOK
    <2>2. \A r \in writers' : pc'[r] # "idle"
      BY <1>2, <2>1, IdleIsBefore DEF SInv, Books, ReadsInv, ReadsTypeOK
    <2>3. QED
      BY <1>1, <2>1, <2>2 DEF SInv, Books, Holding
  <1>6. QED
    BY <1>4, <1>5

\* At the start nobody writes.
LEMMA InitSInv == ReadsInit => SInv
  <1> SUFFICES ASSUME ReadsInit PROVE SInv
    OBVIOUS
  <1>1. ReadsInv /\ KInv
    BY InitReadsInv, InitKInv DEF ReadsInit
  <1>2. QED
    BY <1>1 DEF ReadsInit, SInv, Books, Holding, Running

\* Every step keeps the invariant.
LEMMA NextSInv == SInv /\ [ReadsNext]_rvars => SInv'
  <1> SUFFICES ASSUME SInv, [ReadsNext]_rvars PROVE SInv'
    OBVIOUS
  <1>1. CASE \/ \E s \in Scopes : build_get_scope_state_script(s)
             \/ build_get_all_scopes_script
    BY <1>1, BeginKeepsSInv
  <1>2. CASE read_options
    BY <1>2, OptionsKeepSInv
  <1>3. CASE read_exclusions
    BY <1>3, ExclusionsKeepSInv
  <1>4. CASE read_failovers
    BY <1>4, FailoversKeepSInv
  <1>5. CASE Write
    BY <1>5, WriteKeepsSInv
  <1>6. CASE UNCHANGED rvars
    <2>1. /\ UNCHANGED vars /\ subject' = subject /\ stage' = stage /\ left' = left
          /\ snapshot' = snapshot /\ failure' = failure
          /\ touched' = touched /\ writers' = writers
      BY <1>6 DEF rvars, script, history
    <2>2. ReadsInv' /\ KInv'
      BY <1>6, <2>1, NextReadsInv, NextKInv DEF SInv
    <2>3. /\ server' = server /\ request' = request /\ pc' = pc /\ Turn' = Turn
          /\ \A r : scope(r)' = scope(r) /\ verb(r)' = verb(r)
      BY <2>1 DEF vars, scope, verb, Turn
    <2>4. Books'
      BY <2>1, <2>3 DEF SInv, Books, Running
    <2>5. \A r \in Requests : SoFar(r)' <=> SoFar(r)
      BY <2>1, <2>3 DEF SoFar, About, OptionsSeen, FailoversSeen
    <2>6. QED
      BY <2>1, <2>2, <2>4, <2>5 DEF SInv, Holding
  <1>7. QED
    BY <1>1, <1>2, <1>3, <1>4, <1>5, <1>6 DEF ReadsNext

\* In every state a script can find itself in.
LEMMA AlwaysSInv == ReadsSpec => []SInv
  <1> QED
    BY InitSInv, NextSInv, PTL DEF ReadsSpec, rvars

\* A payload that was reported is what the snapshot holds of the scope.
LEMMA ReportedPayload ==
    ASSUME NEW srv, NEW s, NEW p, Report(srv, s).status = "ok",
           Report(srv, s).payload = p
    PROVE  /\ srv.scopes[s] # None /\ failover_of(srv, s) = p.failover
           /\ srv.scopes[s].mask = p.mask /\ srv.scopes[s].range = p.range
           /\ srv.scopes[s].params = p.params
           /\ srv.scopes[s].dns = p.dns /\ srv.scopes[s].gateway = p.gateway
           /\ srv.scopes[s].next = p.next /\ srv.scopes[s].file = p.file
           /\ srv.scopes[s].exclusions = p.exclusions
  <1>1. Reading(srv, s) = "ok" /\ p = Assembled(srv, s)
    BY DEF Report
  <1>2. srv.scopes[s] # None
    BY <1>1 DEF Reading
  <1>3. QED
    BY <1>1, <1>2 DEF Assembled

\* NoEarlySuccess: a GET or a listing that runs while a POST or a PUT of the
\* scope does, and answers what that one asks for, is right: with every step of
\* the plan (build_configuration_plan) that was still to come the scope stays
\* as it was asked for.
THEOREM EarlySuccessIsTrue == ReadsSpec => NoEarlySuccess
  <1>1. SInv /\ SInv' /\ [ReadsNext]_rvars =>
          [Answering =>
              \A s \in ReportedOn, r \in Requests :
                  /\ writers' = {r} /\ scope(r) = s /\ verb(r) # "DELETE"
                  /\ Reported(s).status = "ok"
                  /\ Reported(s).payload = request[r].desired
                  => Report(server, s) = Reported(s)
            ]_<<vars, script, history>>
    <2> SUFFICES ASSUME SInv, SInv', ReadsNext, Answering,
                        NEW s \in ReportedOn, NEW r \in Requests,
                        writers' = {r}, scope(r) = s, verb(r) # "DELETE",
                        Reported(s).status = "ok",
                        Reported(s).payload = request[r].desired
                 PROVE  Report(server, s) = Reported(s)
      BY DEF rvars
    <2>1. PICK desired : desired = request[r].desired
      OBVIOUS
    <2>2. UNCHANGED vars /\ stage' = "answered"
      BY DEF Answering, ReadsNext, Write, script, build_get_scope_state_script,
             build_get_all_scopes_script, Begin, read_options, read_exclusions,
             read_failovers
    <2>3. /\ server' = server /\ request'[r].desired = desired
          /\ scope(r)' = s /\ verb(r)' # "DELETE"
      BY <2>1, <2>2 DEF vars, scope, verb
    <2>4. ~failure'
      <3>1. failure' => Reported(s) = Missing
        BY DEF Reported, ReportedOn, get_scope_report
      <3>2. QED
        BY <3>1 DEF Missing
    <2>5. Reported(s) = Report(snapshot', s)
      BY <2>4 DEF Reported, get_scope_report, list_scopes, Report, Reading, Assembled
    <2>6. PICK seen : seen = snapshot'.scopes[s]
      OBVIOUS
    <2>7. /\ seen # None /\ failover_of(snapshot', s) = desired.failover
          /\ seen.mask = desired.mask /\ seen.range = desired.range
          /\ seen.params = desired.params /\ seen.dns = desired.dns
          /\ seen.gateway = desired.gateway /\ seen.next = desired.next
          /\ seen.file = desired.file /\ seen.exclusions = desired.exclusions
      BY <2>1, <2>5, <2>6, ReportedPayload
    <2>8. s \in About' /\ s \in Scopes
      BY <2>4 DEF About, ReportedOn, SInv, ReadsInv, ReadsTypeOK
    <2>9. SoFar(r)'
      BY <2>2, <2>4 DEF SInv, Holding
    <2>10. left' = {}
      BY <2>2, <2>4 DEF SInv, Books
    <2>11. OptionsSeen(s)' /\ FailoversSeen'
      BY <2>2, <2>10 DEF OptionsSeen, FailoversSeen
    <2>12. /\ server.scopes[s] # None
           /\ BareKept(seen, server.scopes[s], desired)
           /\ OptionsKept(seen, server.scopes[s], desired)
           /\ ExclusionsKept(seen, server.scopes[s], desired)
           /\ failover_of(server, s) = desired.failover
      BY <2>3, <2>6, <2>7, <2>8, <2>9, <2>10, <2>11 DEF SoFar
    <2>13. seen \in ScopeConfig /\ server.scopes[s] \in ScopeConfig
      BY <2>6, <2>7, <2>8, <2>12
         DEF SInv, ReadsInv, ReadsTypeOK, IInv, DataType, Server
    <2>14. seen = server.scopes[s]
      BY <2>7, <2>12, <2>13
         DEF BareKept, OptionsKept, ExclusionsKept, ScopeConfig
    <2>15. /\ snapshot'.scopes[s] = server.scopes[s]
           /\ failover_of(snapshot', s) = failover_of(server, s)
      BY <2>6, <2>7, <2>12, <2>14
    <2>16. QED
      BY <2>5, <2>15, ReportSame
  <1>2. QED
    BY <1>1, AlwaysSInv, PTL DEF ReadsSpec, NoEarlySuccess, rvars

-----------------------------------------------------------------------------
(* The reconciler *)

cvars == <<vars, client>>

\* What the loop keeps, beside the handlers' own invariant.
ClientType ==
    /\ wanted \in [Resources -> Payloads \cup {None}]
    /\ waiting \in [Resources -> Requests \cup {None}]
    /\ \A x \in Resources : waiting[x] # None => waiting[x] \in Sending[x]

ClientInv == IInv /\ ClientType

\* The scopes begin as the resources' starts have them.
LEMMA StartsIInv ==
    ASSUME ReconcilerInit
    PROVE  ClientInv
  <1>1. PICK start \in Starts :
          /\ server = Laid([s \in Scopes |->
                              start[CHOOSE x \in Resources : Managing[x] = s].is])
          /\ wanted = [x \in Resources |-> start[x].wanted]
    BY DEF ReconcilerInit
  <1> DEFINE f == [s \in Scopes |->
                     start[CHOOSE x \in Resources : Managing[x] = s].is]
  <1>2. ASSUME NEW s \in Scopes
        PROVE  start[CHOOSE x \in Resources : Managing[x] = s].is \in Payloads \cup {None}
    <2> DEFINE x == CHOOSE x \in Resources : Managing[x] = s
    <2>1. x \in Resources
      BY ReconcilerAssumption
    <2> HIDE DEF x
    <2>2. QED
      BY <2>1, ReconcilerAssumption DEF x
  <1>3. f \in [Scopes -> Payloads \cup {None}]
    BY <1>2
  <1>4. server \in Server
    <2> HIDE DEF f
    <2>1. Laid(f) \in Server
      BY <1>3, LaidType
    <2>2. QED
      BY <1>1, <2>1 DEF f
  <1>5. DataType
    BY <1>4, ServiceAssumption DEF ReconcilerInit, DataType
  <1>6. ControlType /\ StageMatchesRequest /\ HolderHeadsQueue
    BY StagesDistinct DEF ReconcilerInit, ControlType, StageMatchesRequest,
                          HolderHeadsQueue
  <1>7. wanted \in [Resources -> Payloads \cup {None}]
    BY <1>1, ReconcilerAssumption
  <1>8. ClientType
    BY <1>7 DEF ReconcilerInit, ClientType
  <1>9. QED
    BY <1>5, <1>6, <1>8 DEF ClientInv, IInv, Control

\* A slot that is taken again arrives like a request of its own.
LEMMA AskStep ==
    ASSUME ClientInv, NEW x \in Resources, NEW r \in Sending[x],
           NEW v \in {"GET", "POST", "PUT", "DELETE"},
           NEW p \in Payloads \cup {None},
           v \in {"POST", "PUT"} => p \in Payloads,
           Ask(x, r, v, p)
    PROVE  ClientInv'
  <1> DEFINE q == [verb |-> v, scope |-> Managing[x], desired |-> p]
  <1>1. r \in Requests /\ Managing[x] \in Scopes
    BY ReconcilerAssumption
  <1>2. /\ q \in Request /\ q.verb = v /\ q.scope = Managing[x]
        /\ v \in {"POST", "PUT"} => q.desired \in Payloads
    BY <1>1, ReconcilerAssumption DEF Request
  <1>3. /\ pc[r] \in {"idle", "done"}
        /\ request' = [request EXCEPT ![r] = q]
        /\ reply' = [reply EXCEPT ![r] = None]
        /\ waiting' = [waiting EXCEPT ![x] = r]
        /\ UNCHANGED <<server, late, todo, faults, faulted, wanted>>
        /\ \/ v = "GET" /\ pc' = [pc EXCEPT ![r] = "read"] /\ queue' = queue
           \/ /\ v # "GET" /\ pc' = [pc EXCEPT ![r] = "locking"]
              /\ queue' = [queue EXCEPT ![Managing[x]] = Append(@, r)]
    BY DEF Ask
  <1> HIDE DEF q
  <1>4. DataType' /\ reply' \in [Requests -> Reply \cup {None}]
    BY <1>1, <1>3 DEF ClientInv, IInv, Control, ControlType, DataType
  <1>5. IInv'
    BY <1>1, <1>2, <1>3, <1>4, RequestArrives DEF ClientInv
  <1>6. ClientType'
    BY <1>1, <1>3, ReconcilerAssumption DEF ClientInv, ClientType
  <1>7. QED
    BY <1>5, <1>6 DEF ClientInv

\* What a resource does next is to ask for something it may ask for.
LEMMA ReconcileAsks ==
    ASSUME ClientInv, NEW x \in Resources, Reconcile(x)
    PROVE  ClientInv'
  <1>1. PICK r \in Sending[x] :
          CASE Observed(x, "not_found") /\ wanted[x] # None ->
                 Ask(x, r, "POST", wanted[x])
            [] Observed(x, "ok") /\ wanted[x] = None -> Ask(x, r, "DELETE", None)
            [] Observed(x, "ok") /\ wanted[x] # None /\ Answer_of(x).body # wanted[x] ->
                 Ask(x, r, "PUT", wanted[x])
            [] OTHER ->
                 ~(Observed(x, "not_found") /\ wanted[x] = None)
                   /\ Ask(x, r, "GET", None)
    BY DEF Reconcile
  <1>2. \/ wanted[x] # None /\ Ask(x, r, "POST", wanted[x])
        \/ Ask(x, r, "DELETE", None)
        \/ wanted[x] # None /\ Ask(x, r, "PUT", wanted[x])
        \/ Ask(x, r, "GET", None)
    BY <1>1
  <1>3. wanted[x] \in Payloads \cup {None}
    BY DEF ClientInv, ClientType
  <1>4. CASE wanted[x] # None /\ Ask(x, r, "POST", wanted[x])
    BY <1>3, <1>4, AskStep
  <1>5. CASE Ask(x, r, "DELETE", None)
    BY <1>5, AskStep
  <1>6. CASE wanted[x] # None /\ Ask(x, r, "PUT", wanted[x])
    BY <1>3, <1>6, AskStep
  <1>7. CASE Ask(x, r, "GET", None)
    BY <1>7, AskStep
  <1>8. QED
    BY <1>2, <1>4, <1>5, <1>6, <1>7

\* A step of the API is one of the handlers', late scripts and restarts included.
LEMMA ApiStep ==
    ASSUME ClientInv, UNCHANGED client, [LateNext]_vars
    PROVE  ClientInv'
  BY NextIInv DEF ClientInv, ClientType, client

\* Giving up ends the wait, and nothing else.
LEMMA GiveUpStep ==
    ASSUME ClientInv, NEW x \in Resources, GiveUp(x)
    PROVE  ClientInv'
  <1>1. /\ faults < MaxFaults /\ faults' = faults + 1
        /\ waiting' = [waiting EXCEPT ![x] = None]
        /\ UNCHANGED <<server, late, queue, request, pc, todo, reply, faulted, wanted>>
    BY DEF GiveUp
  <1>2. DataType'
    BY <1>1, ServiceAssumption DEF ClientInv, IInv, DataType
  <1>3. Control'
    BY <1>1 DEF ClientInv, IInv, Control, ControlType, StageMatchesRequest,
                HolderHeadsQueue, scope, verb
  <1>4. ClientType'
    BY <1>1 DEF ClientInv, ClientType
  <1>5. QED
    BY <1>2, <1>3, <1>4 DEF ClientInv, IInv

\* Every step of the loop and of the API it drives keeps the invariant.
LEMMA ReconcilerKeeps == ClientInv /\ [ReconcilerNext]_cvars => ClientInv'
  <1> SUFFICES ASSUME ClientInv, [ReconcilerNext]_cvars PROVE ClientInv'
    OBVIOUS
  <1>1. ASSUME NEW x \in Resources, Reconcile(x) \/ GiveUp(x) PROVE ClientInv'
    BY <1>1, ReconcileAsks, GiveUpStep
  <1>2. ASSUME NEW r \in Requests, Api(r) PROVE ClientInv'
    BY <1>2, ApiStep DEF Api, LateNext, Next
  <1>3. CASE RunLate /\ UNCHANGED client
    BY <1>3, ApiStep DEF LateNext
  <1>4. CASE Crash /\ UNCHANGED client
    BY <1>4, ApiStep DEF LateNext, Next
  <1>5. CASE UNCHANGED cvars
    BY <1>5, ApiStep DEF cvars
  <1>6. QED
    BY <1>1, <1>2, <1>3, <1>4, <1>5 DEF ReconcilerNext

\* The invariant holds of the loop and the API together.
LEMMA ReconcilerInvariant == ReconcilerSpec => []ClientInv
  BY StartsIInv, ReconcilerKeeps, PTL DEF ReconcilerSpec, cvars

\* A resource waits for a request of its own, and whatever it sends in whatever
\* order, in slots it uses again and behind requests it has given up on, the API
\* stays in its state space.
THEOREM ReconcilerTypes == ReconcilerSpec => []ReconcilerTypeOK
  <1>1. ClientInv => ReconcilerTypeOK
    BY DEF ClientInv, ClientType, IInv, DataType, Control, ControlType, TypeOK,
           ReconcilerTypeOK
  <1>2. QED
    BY <1>1, ReconcilerInvariant, PTL

\* The lock excludes also when a client sends again while the handler of its last
\* request, which nothing cancels, is still at work: the new request waits behind
\* the old one, and a slot that is used again never leaves a place in a queue that
\* somebody else takes for his own.
THEOREM ResendingExcludes == ReconcilerSpec => []OneWriterPerScope
  <1>1. ClientInv => OneWriterPerScope
    BY DEF ClientInv, IInv, Control, HolderHeadsQueue, OneWriterPerScope
  <1>2. QED
    BY <1>1, ReconcilerInvariant, PTL
=============================================================================
