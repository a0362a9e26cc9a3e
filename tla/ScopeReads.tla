----------------------------- MODULE ScopeReads -----------------------------
(***************************************************************************)
(* The two reads of the service among its writes: GET of one scope and the *)
(* listing of all.  Each is one PowerShell script, but of several cmdlets, *)
(* takes no lock, and may find the writes of other requests between any    *)
(* two of them (the scripts of app/services/ps_parsers.py).  ScopeService  *)
(* reads a scope in one step; this module says what of that is true.       *)
(*                                                                         *)
(* What a script has gathered is the snapshot: the scopes and the          *)
(* relationships as it saw them, each at another moment.                   *)
(***************************************************************************)
EXTENDS ScopeService

VARIABLES
    subject,    \* the scope that a GET is about; None for the listing
    stage,      \* the cmdlet it has come to
    left,       \* scopes whose options and exclusions are still to be read
    snapshot,   \* what it has gathered
    failure,    \* whether a cmdlet ended it
    touched,    \* (history) scopes whose state changed while it ran
    lost,       \* (history) scopes that were absent at some time while it ran
    writers     \* (history) the writes that were past a lock while it ran

ASSUME ReadsAssumption == None \notin Scopes

script == <<subject, stage, left, snapshot, failure>>
history == <<touched, lost, writers>>

Running == stage \in {"options", "exclusions", "failovers"}

Nothing ==
    [scopes |-> [s \in Scopes |-> None], rels |-> [n \in Names |-> None],
     synced |-> {}]

ReadsTypeOK ==
    /\ TypeOK
    /\ subject \in Scopes \cup {None}
    /\ stage \in {"idle", "options", "exclusions", "failovers", "answered"}
    /\ left \subseteq Scopes
    /\ snapshot \in Server
    /\ failure \in BOOLEAN
    /\ touched \subseteq Scopes /\ lost \subseteq Scopes
    /\ writers \subseteq Requests

-----------------------------------------------------------------------------
(* The cmdlets of the scripts *)

\* Get-DhcpServerv4Scope gives the scope without options and exclusions.
Bare(s) ==
    IF Exists(server, s)
    THEN [server.scopes[s] EXCEPT !.dns = None, !.gateway = None, !.next = None,
                                  !.file = None, !.exclusions = {}]
    ELSE None

\* What reading the options may add to what is known of a scope; none are no
\* error (Test-DhcpNoOptions).  The options of a scope that has meanwhile been
\* removed are an error, or its message passes for that of no options.
Optioned(s) ==
    IF Exists(server, s)
    THEN {[snapshot.scopes[s] EXCEPT
              !.dns = server.scopes[s].dns, !.gateway = server.scopes[s].gateway,
              !.next = server.scopes[s].next, !.file = server.scopes[s].file]}
    ELSE {snapshot.scopes[s], None}

\* (Wrong on purpose.)
Wrong_no_exclusions_is_an_error(s) ==
    IF Exists(server, s) /\ server.scopes[s].exclusions # {}
    THEN {[snapshot.scopes[s] EXCEPT !.exclusions = server.scopes[s].exclusions]}
    ELSE {snapshot.scopes[s], None}

\* The same of the exclusions (Test-DhcpNoExclusions).
Excluded(s) ==
    IF Exists(server, s)
    THEN {[snapshot.scopes[s] EXCEPT !.exclusions = server.scopes[s].exclusions]}
    ELSE {snapshot.scopes[s], None}

\* The scope whose turn it is.
Turn == CHOOSE s \in left : TRUE

-----------------------------------------------------------------------------
(* The scripts *)

\* History begins with the first cmdlet.
Begin ==
    /\ touched' = {}
    /\ lost' = {s \in Scopes : ~Exists(server, s)}
    /\ writers' = {r \in Requests : pc[r] \in Locked}
    /\ UNCHANGED vars

build_get_scope_state_script(s) ==
    /\ stage = "idle"
    /\ subject' = s
    /\ left' = {s}
    /\ snapshot' = [Nothing EXCEPT !.scopes[s] = Bare(s)]
    /\ failure' = ~Exists(server, s)
    /\ stage' = IF Exists(server, s) THEN "options" ELSE "answered"
    /\ Begin

build_get_all_scopes_script ==
    /\ stage = "idle"
    /\ subject' = None
    /\ left' = {s \in Scopes : Exists(server, s)}
    /\ snapshot' = [Nothing EXCEPT !.scopes = [s \in Scopes |-> Bare(s)]]
    /\ failure' = FALSE
    /\ stage' = "failovers"
    /\ Begin

\* A cmdlet adds `found` to what is known of the scope whose turn it is, or
\* throws, which ends the script.
Gather(found, then) ==
    IF found = None
    THEN stage' = "answered" /\ failure' = TRUE /\ UNCHANGED snapshot
    ELSE /\ snapshot' = [snapshot EXCEPT !.scopes[Turn] = found]
         /\ stage' = then
         /\ UNCHANGED failure

read_options ==
    /\ stage = "options"
    /\ \E found \in Optioned(Turn) : Gather(found, "exclusions")
    /\ UNCHANGED <<vars, history, subject, left>>

\* Failovers come last in the script for one scope, and before the loop in the
\* script for all.
read_exclusions ==
    /\ stage = "exclusions"
    /\ left' = left \ {Turn}
    /\ \E found \in Excluded(Turn) :
         Gather(found, IF left' # {} THEN "options"
                       ELSE IF subject # None THEN "failovers" ELSE "answered")
    /\ UNCHANGED <<vars, history, subject>>

read_failovers ==
    /\ stage = "failovers"
    /\ snapshot' = [snapshot EXCEPT !.rels = server.rels]
    /\ stage' = IF left = {} THEN "answered" ELSE "options"
    /\ UNCHANGED <<vars, history, subject, left, failure>>

-----------------------------------------------------------------------------
(* What becomes of the snapshot: the status reported of a scope, with a    *)
(* payload if it is "ok".                                                  *)

Report(srv, s) ==
    [status |-> Reading(srv, s),
     payload |-> IF Reading(srv, s) = "ok" THEN Assembled(srv, s) ELSE None]

Missing == [status |-> "missing", payload |-> None]

get_scope_report(s) == IF failure THEN Missing ELSE Report(snapshot, s)

\* (Wrong on purpose.)
Wrong_list_scopes(s) ==
    IF \E t \in Scopes : Reading(snapshot, t) \in {"conflict", "invalid"}
    THEN Missing ELSE Report(snapshot, s)

\* Of a scope that cannot be made a payload the listing has the error; the
\* others it reports all the same.
list_scopes(s) == Report(snapshot, s)

-----------------------------------------------------------------------------
(* The specification *)

ReadsInit ==
    /\ Init
    /\ subject = None
    /\ stage = "idle"
    /\ left = {}
    /\ snapshot = Nothing
    /\ failure = FALSE
    /\ touched = {} /\ lost = {} /\ writers = {}

View(srv, s) == <<srv.scopes[s], failover_of(srv, s)>>

\* A step of the writes, and what the history keeps of it.  What happens after
\* the answer is of no interest.
Write ==
    /\ stage # "answered"
    /\ Next
    /\ IF Running
       THEN /\ touched' = touched \cup
                  {s \in Scopes : View(server', s) # View(server, s)}
            /\ lost' = lost \cup {s \in Scopes : ~Exists(server', s)}
            /\ writers' = writers \cup {r \in Requests : pc'[r] \in Locked}
       ELSE UNCHANGED history
    /\ UNCHANGED script

ReadsNext ==
    \/ \E s \in Scopes : build_get_scope_state_script(s)
    \/ build_get_all_scopes_script
    \/ read_options
    \/ read_exclusions
    \/ read_failovers
    \/ Write

ReadsSpec == ReadsInit /\ [][ReadsNext]_<<vars, script, history>>

-----------------------------------------------------------------------------
(* Properties *)

Answering == stage # "answered" /\ stage' = "answered"

\* What the script that is being answered reports of scopes.
Reported(s) ==
    IF subject' = None THEN list_scopes(s)' ELSE get_scope_report(s)'

ReportedOn ==
    IF subject' # None THEN {subject'} ELSE IF failure' THEN {} ELSE Scopes

\* A scope that nothing happened to while the script ran is reported exactly as
\* it is, whatever was done to the others: what ScopeService has GET do in one
\* step, and, in the listing, next to scopes that cannot be read
\* (scope_service.py:211-213: "the broken scope is added to `errors` and all
\* other scopes are still returned").
QuietScopesReadTrue ==
    [][Answering => \A s \in ReportedOn \ touched' : Reported(s) = Report(server, s)
      ]_<<vars, script, history>>

\* A scope is reported missing, on which Crossplane creates it, only if it was
\* missing at some time while the script ran; a listing fails only if a scope
\* it had begun with went away.
MissingWasMissing ==
    [][Answering =>
          /\ \A s \in ReportedOn : Reported(s).status = "missing" => s \in lost'
          /\ failure' => \E s \in lost' : snapshot'.scopes[s] # None \/ s = subject'
      ]_<<vars, script, history>>

\* A read that falls into a single write and reports what that write is asked
\* for tells the truth: the scope holds it when the answer is given, so that
\* Crossplane does not stop reconciling half-way.
NoEarlySuccess ==
    [][Answering =>
          \A s \in ReportedOn, r \in Requests :
              /\ writers' = {r} /\ scope(r) = s /\ verb(r) # "DELETE"
              /\ Reported(s).status = "ok"
              /\ Reported(s).payload = request[r].desired
              => Report(server, s) = Reported(s)
      ]_<<vars, script, history>>
=============================================================================
